---- MODULE Spec2Model ----
(***************************************************************************)
(* Retrieval-and-fusion core of the hybrid RAG backend:                    *)
(*   - HybridRetriever.fuse        (services/hybrid_retriever.py)          *)
(*   - ResearchAgent.research      (services/research_agent.py)            *)
(*   - CacheService.get / set      (services/cache_service.py)             *)
(* Each component has its own specification over the shared variables; the *)
(* variables of the other components stay at their initial values.         *)
(***************************************************************************)
EXTENDS Integers, Sequences, FiniteSets, TLC

(***************************************************************************)
(* Bounds of the model.                                                    *)
(***************************************************************************)
\* longest result list handed to fuse
MaxLen == 2
\* most result lists handed to one fuse call
MaxLists == 3
\* largest integer weight of a result list
MaxWeight == 2
\* most results one retriever returns to the research agent
MaxHits == 1
\* largest configured MAX_LOOPS
MaxLoopsBound == 3
\* keys other than the tracked one that callers store in the cache
NumFillers == 10
\* largest explicit ttl, and the number of one-second ticks in a row
MaxTtl == 1

\* nodes of the graphs searched
NumNodes == 4

\* parallel relationships between two adjacent nodes, when there are several
MaxFan == 3

\* largest max_hops passed to the path search
MaxHopsBound == 3

\* pieces a routed query is put together from
MaxPieces == 4

\* calls made to the progress tracker
MaxCalls == 3

\* broadcasts of one job that may run at the same time
MaxBroadcasts == 2

\* add_extraction_result calls of one run, and the rows of one result
MaxAdds == 2

MaxEntities == 2

MaxRelationships == 1

\* _retrieve_rag_context calls in a row
MaxRetrievals == 3

VARIABLES
    \* ---- HybridRetriever.fuse ----
    result_sets,    \* fuse argument: sequence of ranked lists of <<chunk, score>>
    weights,        \* fuse argument: NoneArg or SomeArg(sequence of weights)
    method_names,   \* fuse argument: NoneArg or SomeArg(sequence of names)
    fpc,            \* "call" before fuse runs, "returned" after
    fused,          \* the list fuse returned
    \* ---- ResearchAgent.research ----
    MAX_LOOPS,      \* agent_config.MAX_LOOPS
    rpc,            \* where research() stands: "call", "search", "plan", "done"
    query,          \* research argument
    step,           \* loop variable
    current_query,
    accumulated_chunks,
    seen_ids,
    step_chunks,    \* what the last _execute_hybrid_search returned
    research_result,\* the list research() returned
    retrievals,     \* history: number of _execute_hybrid_search calls
    plannerCalls,   \* history: number of _evaluate_and_plan calls
    searched,       \* history: the query of the last search
    lastOutcome,    \* history: what the planner provider did in the last call
    allContinue,    \* history: every planner reply so far said CONTINUE
    \* ---- CacheService ----
    MAX_CACHE_SIZE, \* cache_config.MAX_CACHE_SIZE
    cache,          \* self._cache: the entries in dict insertion order
    now,            \* time.time()
    lastGet,        \* history: the last get since the last set of its key
    lastSet,        \* history: the last set of the tracked key
    fillersUsed,    \* history: how many of the other keys have been stored
    lock,           \* self._lock: "free" or the thread that holds it
    thread,         \* per thread: where it stands in get or set, its locals
    \* ---- GraphTraversal ----
    graph,          \* the relationships stored: adjacency, parallel edges, dangling ends
    gpc,            \* "ready", "bfs", "found", "scored", "returned", "raised"
    start_id,       \* _bfs_paths arguments
    end_id,
    max_hops,
    queue,          \* _bfs_paths: deque of (current, path, visited)
    found_paths,    \* _bfs_paths: the paths found
    scored_paths,   \* find_paths: the scored paths kept
    find_paths_result,\* what find_paths returned or raised
    \* ---- QueryRouter ----
    router_query,   \* route_query argument
    qpc,            \* "call" before route_query runs, "returned" after
    routed,         \* what route_query returned: route and metadata
    \* ---- ChatService ----
    chat_query,     \* stream_chat_response arguments
    use_rag,
    cpc,            \* where the pipeline stands: "route", "quick", "rag", "cache", "agent",
                    \* "transform", "search", "compress", "llm", "finished"
    route_info,     \* route and route_metadata
    context_chunks, \* stream_chat_response: the context retrieved
    search_weights, \* _retrieve_rag_context: weights of the three sub-searches
    search_query,   \* _retrieve_rag_context: the text embedded
    transformed,    \* history: what analysis, hypothetical document and critique gave
    retrieval,      \* how _retrieve_rag_context ended: returned a list or raised
    sub_search,     \* history: how each of the three sub-searches ended
    events,         \* the server-sent events yielded so far
    calls,          \* history: the calls made into other services, in order
    \* ---- ProgressTracker ----
    progress_data,  \* self.progress_data: file_id -> progress record
    scheduled,      \* history: broadcasts scheduled with asyncio.create_task, per file
    pcalls,         \* history: the tracker calls made so far (also the clock)
    last_call,      \* history: the last tracker call and its file_id
    \* ---- ProgressTracker: connections and broadcasts ----
    connections,    \* self.connections: file_id -> the set of websockets, or no entry
    ws_state,       \* per websocket: "new", "registered" or "closed" (its endpoint)
    tasks,          \* the _broadcast_update tasks: where each stands, its locals
    last_sent,      \* history: per websocket, updated_at of the record last passed to its send_json
    \* ---- Knowledge Store (GraphService) ----
    kg_nodes,        \* the nodes of the database, in the order of their creation
    kg_edges,        \* the relationships, each between two nodes
    kg_last,         \* the last call made on the service
    kg_adds,         \* add_extraction_result calls made so far
    has_constraints, \* whether the uniqueness constraints were set up
    writers,         \* the concurrent add_extraction_result calls
    \* ---- QueryTransformService.adjust_weights ----
    given_weights,   \* adjust_weights arguments
    given_critique,
    tpc,             \* "call" before adjust_weights runs, "returned" after
    adjusted,        \* what adjust_weights returned
    \* ---- ChatService._retrieve_rag_context and the cache, call after call ----
    rag_calls,       \* _retrieve_rag_context calls made so far
    rag_last,        \* history: the last call, what it returned and whether from the cache
    rag_origin       \* history: per cache key, the file_ids of the call that stored it

fuseVars == <<result_sets, weights, method_names, fpc, fused>>
researchVars == <<MAX_LOOPS, rpc, query, step, current_query, accumulated_chunks,
                  seen_ids, step_chunks, research_result, retrievals,
                  plannerCalls, searched, lastOutcome, allContinue>>
cacheVars == <<MAX_CACHE_SIZE, cache, now, lastGet, lastSet, fillersUsed, lock, thread>>
graphVars == <<graph, gpc, start_id, end_id, max_hops, queue, found_paths, scored_paths,
               find_paths_result>>
routerVars == <<router_query, qpc, routed>>
chatVars == <<chat_query, use_rag, cpc, route_info, context_chunks, search_weights,
              search_query, transformed, retrieval, sub_search, events, calls>>
progressVars == <<progress_data, scheduled, pcalls, last_call>>
broadcastVars == <<connections, ws_state, tasks, last_sent>>
kgVars == <<kg_nodes, kg_edges, kg_last, kg_adds, has_constraints, writers>>
transformVars == <<given_weights, given_critique, tpc, adjusted>>
ragVars == <<rag_calls, rag_last, rag_origin>>
vars == <<fuseVars, researchVars, cacheVars, graphVars, routerVars, chatVars, progressVars, broadcastVars, kgVars, transformVars, ragVars>>

\* what each component leaves alone
notFuseVars == <<researchVars, cacheVars, graphVars, routerVars, chatVars, progressVars, broadcastVars, kgVars, transformVars, ragVars>>
notResearchVars == <<fuseVars, cacheVars, graphVars, routerVars, chatVars, progressVars, broadcastVars, kgVars, transformVars, ragVars>>
notCacheVars == <<fuseVars, researchVars, graphVars, routerVars, chatVars, progressVars, broadcastVars, kgVars, transformVars, ragVars>>
notGraphVars == <<fuseVars, researchVars, cacheVars, routerVars, chatVars, progressVars, broadcastVars, kgVars, transformVars, ragVars>>
notRouterVars == <<fuseVars, researchVars, cacheVars, graphVars, chatVars, progressVars, broadcastVars, kgVars, transformVars, ragVars>>
notChatVars == <<fuseVars, researchVars, cacheVars, graphVars, routerVars, progressVars, broadcastVars, kgVars, transformVars, ragVars>>
notProgressVars == <<fuseVars, researchVars, cacheVars, graphVars, routerVars, chatVars, broadcastVars, kgVars, transformVars, ragVars>>
notBroadcastVars == <<fuseVars, researchVars, cacheVars, graphVars, routerVars, chatVars, progressVars, kgVars, transformVars, ragVars>>
notKgVars == <<fuseVars, researchVars, cacheVars, graphVars, routerVars, chatVars, progressVars, broadcastVars, transformVars, ragVars>>
notTransformVars == <<fuseVars, researchVars, cacheVars, graphVars, routerVars, chatVars, progressVars, broadcastVars, kgVars, ragVars>>
notRagVars == <<fuseVars, researchVars, cacheVars, graphVars, routerVars, chatVars, progressVars, broadcastVars, kgVars, transformVars>>

\* Python's None where a string may stand
None == "<None>"

\* an optional sequence argument: None, or the sequence given
NoneArg == [given |-> FALSE, v |-> <<>>]

SomeArg(s) == [given |-> TRUE, v |-> s]

(***************************************************************************)
(* Generic helpers.                                                        *)
(***************************************************************************)
Min(a, b) == IF a <= b THEN a ELSE b

Range(s) == {s[i] : i \in DOMAIN s}

Take(s, n) == SubSeq(s, 1, Min(n, Len(s)))

SeqsUpTo(S, n) == UNION {[1..m -> S] : m \in 0..n}

RECURSIVE GCD(_, _)
GCD(a, b) == IF b = 0 THEN a ELSE GCD(b, a % b)

LCM(a, b) == (a \div GCD(a, b)) * b

(***************************************************************************)
(* Python floats are modelled as exact non-negative rationals <<n, d>>,    *)
(* d > 0, kept in lowest terms (rounding error is not modelled).           *)
(***************************************************************************)
Rat(n, d) == LET g == GCD(n, d) IN IF n = 0 THEN <<0, 1>> ELSE <<n \div g, d \div g>>

RatZero == <<0, 1>>

RatOfInt(n) == <<n, 1>>

\* a / k for a positive integer k
RatDivInt(a, k) == Rat(a[1], a[2] * k)

\* a / b for rationals, b > 0
RatDiv(a, b) == Rat(a[1] * b[2], a[2] * b[1])

RatAdd(a, b) ==
    LET l == LCM(a[2], b[2])
    IN  Rat(a[1] * (l \div a[2]) + b[1] * (l \div b[2]), l)

RatLess(a, b) ==
    LET l == LCM(a[2], b[2])
    IN  a[1] * (l \div a[2]) < b[1] * (l \div b[2])

RatLeq(a, b) == ~RatLess(b, a)

RECURSIVE RatSum(_)
RatSum(s) == IF s = <<>> THEN RatZero ELSE RatAdd(s[1], RatSum(Tail(s)))

(***************************************************************************)
(* Chunks are dicts: functions whose domain may or may not hold "id".      *)
(* An id of "" is falsy in Python.                                         *)
(***************************************************************************)
DictGet(d, f, default) == IF f \in DOMAIN d THEN d[f] ELSE default

Falsy(v) == v = "" \/ v = None

\* hash(str): an int, never equal to a str id; taken to be collision-free
Hash(s) == [kind |-> "hash", of |-> s]

IdKey(v) == [kind |-> "id", of |-> v]

cA == [id |-> "a", content |-> "x"]
cB == [id |-> "", content |-> "x"]
cC == [id |-> "", content |-> "y"]
cD == [content |-> "y"]

Chunks == {cA, cB, cC, cD}

\* (chunk, original score) pairs the retrievers may return
Candidates == {<<cA, 9>>, <<cB, 8>>, <<cC, 15>>, <<cD, 10>>}

(***************************************************************************)
(* HybridRetriever.fuse                                                    *)
(***************************************************************************)
RRF_K == 60

\* chunk.get('id') or hash(chunk.get('content', ''))
FuseKey(chunk) ==
    LET id == DictGet(chunk, "id", None)
    IN  IF ~Falsy(id) THEN IdKey(id) ELSE Hash(DictGet(chunk, "content", ""))

\* weights = [1.0] * len(result_sets) when None
DefaultWeights(rs, ws) == IF ~ws.given THEN [i \in 1..Len(rs) |-> 1] ELSE ws.v

\* method_names = ["Method_1", ...] when None
DefaultNames(rs, ns) ==
    IF ~ns.given THEN [i \in 1..Len(rs) |-> "Method_" \o ToString(i)] ELSE ns.v

RECURSIVE SumInts(_)
SumInts(s) == IF s = <<>> THEN 0 ELSE s[1] + SumInts(Tail(s))

\* weights = [w / total_weight for w in weights]
NormalizeWeights(ws) ==
    LET total_weight == SumInts(ws)
    IN  [i \in DOMAIN ws |-> RatDiv(RatOfInt(ws[i]), RatOfInt(total_weight))]

\* faulty variant: ranks counted from 1
RrfContribution_OneIndexed(weight, rank) == RatDivInt(weight, RRF_K + rank + 1)

\* faulty variant: the rank subtracted, so that a worse rank earns more
RrfContribution_RankSubtracted(weight, rank) == RatDivInt(weight, RRF_K - rank)

\* rrf_score = weight / (self.k + rank), rank 0-indexed
RrfContribution(weight, rank) == RatDivInt(weight, RRF_K + rank)

\* index of the entry of acc with this key, 0 when there is none
IndexOfKey(acc, key) ==
    IF \E i \in DOMAIN acc : acc[i].key = key
    THEN CHOOSE i \in DOMAIN acc : acc[i].key = key
    ELSE 0

\* one pass of the inner loop body: rrf_scores[chunk_id] += ..., the tracker
\* append and the first-writer-wins chunk_map store. acc lists the keys in
\* dict insertion order.
AddOccurrence(acc, chunk, original_score, weight, method_name, rank) ==
    LET key == FuseKey(chunk)
        c == RrfContribution(weight, rank)
        detail == [method |-> method_name, rank |-> rank,
                   original_score |-> original_score, rrf_contribution |-> c]
        i == IndexOfKey(acc, key)
    IN  IF i = 0
        THEN Append(acc, [key |-> key, chunk |-> chunk,
                          rrf_score |-> RatAdd(RatZero, c),
                          fusion_details |-> <<detail>>])
        ELSE [acc EXCEPT ![i].rrf_score = RatAdd(@, c),
                         ![i].fusion_details = Append(@, detail)]

\* for rank, (chunk, original_score) in enumerate(result_set)
RECURSIVE FuseList(_, _, _, _, _)
FuseList(acc, result_set, weight, method_name, pos) ==
    IF pos > Len(result_set) THEN acc
    ELSE FuseList(AddOccurrence(acc, result_set[pos][1], result_set[pos][2],
                                weight, method_name, pos - 1),
                  result_set, weight, method_name, pos + 1)

\* for result_set, weight, method_name in zip(result_sets, weights, method_names)
RECURSIVE FuseLists(_, _, _, _, _)
FuseLists(acc, rs, ws, ns, i) ==
    IF i > Min(Len(rs), Min(Len(ws), Len(ns))) THEN acc
    ELSE FuseLists(FuseList(acc, rs[i], ws[i], ns[i], 1), rs, ws, ns, i + 1)

\* faulty variant: an unstable sort that puts a later item before its equals
RECURSIVE InsertDesc_TiesReversed(_, _)
InsertDesc_TiesReversed(sorted, x) ==
    IF sorted = <<>> THEN <<x>>
    ELSE IF RatLeq(Head(sorted).rrf_score, x.rrf_score)
         THEN <<x>> \o sorted
         ELSE <<Head(sorted)>> \o InsertDesc_TiesReversed(Tail(sorted), x)

\* sorted(..., key=score, reverse=True): stable, equal scores keep their order
RECURSIVE InsertDesc(_, _)
InsertDesc(sorted, x) ==
    IF sorted = <<>> THEN <<x>>
    ELSE IF RatLess(Head(sorted).rrf_score, x.rrf_score)
         THEN <<x>> \o sorted
         ELSE <<Head(sorted)>> \o InsertDesc(Tail(sorted), x)

RECURSIVE SortDesc(_, _)
SortDesc(items, n) ==
    IF n = 0 THEN <<>> ELSE InsertDesc(SortDesc(items, n - 1), items[n])

\* the (chunk, score) list fuse returns; the metadata fuse writes into the
\* chunk copy is kept beside the chunk
Fuse(rs, ws0, ns0) ==
    LET ws == NormalizeWeights(DefaultWeights(rs, ws0))
        ns == DefaultNames(rs, ns0)
        acc == FuseLists(<<>>, rs, ws, ns, 1)
        sorted_results == SortDesc(acc, Len(acc))
    IN  [i \in DOMAIN sorted_results |->
            [chunk |-> sorted_results[i].chunk,
             key |-> sorted_results[i].key,
             rrf_score |-> sorted_results[i].rrf_score,
             appeared_in |-> [j \in DOMAIN sorted_results[i].fusion_details |->
                                 sorted_results[i].fusion_details[j].method],
             fusion_details |-> sorted_results[i].fusion_details]]

ResultLists == SeqsUpTo(Candidates, MaxLen)

METHOD_NAMES == <<"Vector", "BM25", "Graph">>

FuseInit ==
    /\ \E n \in 0..MaxLists :
          /\ result_sets \in [1..n -> ResultLists]
          /\ \/ weights = NoneArg /\ method_names = NoneArg
             \/ /\ \E ws \in [1..n -> 1..MaxWeight] : weights = SomeArg(ws)
                /\ method_names = SomeArg(SubSeq(METHOD_NAMES, 1, n))
    /\ fpc = "call"
    /\ fused = <<>>

FuseIdle ==
    /\ result_sets = <<>>
    /\ weights = NoneArg
    /\ method_names = NoneArg
    /\ fpc = "idle"
    /\ fused = <<>>

CallFuse ==
    /\ fpc = "call"
    /\ fused' = Fuse(result_sets, weights, method_names)
    /\ fpc' = "returned"
    /\ UNCHANGED <<result_sets, weights, method_names>>
    /\ UNCHANGED notFuseVars

(***************************************************************************)
(* ResearchAgent.research                                                  *)
(***************************************************************************)
Queries == {"q0", "q1"}

\* fused[:7]
TOP_PER_STEP == 7

\* chunk.get('id', hash(chunk.get('content', '')))
ResearchKey(chunk) ==
    IF "id" \in DOMAIN chunk THEN IdKey(chunk["id"])
    ELSE Hash(DictGet(chunk, "content", ""))

\* _execute_hybrid_search without a failure: the three result lists fused
\* with weights [1.0, 1.0, 1.0], the chunks of the first 7 results
HybridSearch(vector_results, bm25_results, graph_results) ==
    LET fusedRs == Fuse(<<vector_results, bm25_results, graph_results>>,
                        SomeArg(<<1, 1, 1>>), SomeArg(METHOD_NAMES))
        top == Take(fusedRs, TOP_PER_STEP)
    IN  [i \in DOMAIN top |-> top[i].chunk]

RetrieverLists == SeqsUpTo(Candidates, MaxHits)

\* what _execute_hybrid_search may return: the fused chunks of any three
\* result lists, or [] when anything in it raises
SearchOutcomes ==
    {HybridSearch(v, b, g) : <<v, b, g>> \in
        RetrieverLists \X RetrieverLists \X RetrieverLists} \union {<<>>}

\* faulty variant: every chunk is appended, seen or not
AddNewChunk_NoSeenCheck(acc, chunk) ==
    [chunks |-> Append(acc.chunks, chunk),
     seen |-> acc.seen \union {ResearchKey(chunk)}]

\* the body of "for chunk in step_chunks"
AddNewChunk(acc, chunk) ==
    LET c_id == ResearchKey(chunk)
    IN  IF c_id \notin acc.seen
        THEN [chunks |-> Append(acc.chunks, chunk), seen |-> acc.seen \union {c_id}]
        ELSE acc

RECURSIVE AddNewChunks(_, _, _)
AddNewChunks(acc, chunks, pos) ==
    IF pos > Len(chunks) THEN acc
    ELSE AddNewChunks(AddNewChunk(acc, chunks[pos]), chunks, pos + 1)

\* what the planner provider may do: raise, answer text that is not JSON, or
\* answer a JSON object with or without "status" and "next_query"
PlannerReplies ==
    {[reasoning |-> "r"]}
    \union [status : {"COMPLETE", "CONTINUE"}]
    \union [next_query : Queries]
    \union [status : {"COMPLETE", "CONTINUE"}, next_query : Queries]

PlannerOutcomes ==
    [kind : {"raise", "badjson"}, body : {[reasoning |-> "r"]}]
    \union [kind : {"json"}, body : PlannerReplies]

NoOutcome == [kind |-> "none", body |-> [reasoning |-> "r"]]

\* faulty variant: the fallback lets the loop go on
EvaluateAndPlan_FallbackContinue(outcome) ==
    IF outcome.kind = "json" THEN outcome.body ELSE [status |-> "CONTINUE"]

\* _evaluate_and_plan: the parsed reply, {"status": "COMPLETE"} on any failure
EvaluateAndPlan(outcome) ==
    IF outcome.kind = "json" THEN outcome.body ELSE [status |-> "COMPLETE"]

\* faulty variant: the planner's next_query is dropped
PlannedQuery_KeepsCurrent(next_move, current) == current

\* next_move.get("next_query", current_query)
PlannedQuery(next_move, current) == DictGet(next_move, "next_query", current)

\* faulty variant: the last step is taken to be the one after the budget
IsLastStep_OffByOne(s) == s = MAX_LOOPS

\* step == agent_config.MAX_LOOPS - 1
IsLastStep(s) == s = MAX_LOOPS - 1

ResearchInit ==
    /\ MAX_LOOPS \in 0..MaxLoopsBound
    /\ query \in Queries
    /\ rpc = "call"
    /\ step = 0
    /\ current_query = None
    /\ accumulated_chunks = <<>>
    /\ seen_ids = {}
    /\ step_chunks = <<>>
    /\ research_result = <<>>
    /\ retrievals = 0
    /\ plannerCalls = 0
    /\ searched = None
    /\ lastOutcome = NoOutcome
    /\ allContinue = TRUE

ResearchIdle ==
    /\ MAX_LOOPS = 0
    /\ query = None
    /\ rpc = "idle"
    /\ step = 0
    /\ current_query = None
    /\ accumulated_chunks = <<>>
    /\ seen_ids = {}
    /\ step_chunks = <<>>
    /\ research_result = <<>>
    /\ retrievals = 0
    /\ plannerCalls = 0
    /\ searched = None
    /\ lastOutcome = NoOutcome
    /\ allContinue = TRUE

\* research() up to the loop head: range(MAX_LOOPS) may be empty
ResearchCall ==
    /\ rpc = "call"
    /\ accumulated_chunks' = <<>>
    /\ seen_ids' = {}
    /\ current_query' = query
    /\ step' = 0
    /\ IF 0 < MAX_LOOPS
       THEN rpc' = "search" /\ UNCHANGED research_result
       ELSE rpc' = "done" /\ research_result' = <<>>
    /\ UNCHANGED <<MAX_LOOPS, query, step_chunks, retrievals, plannerCalls,
                   searched, lastOutcome, allContinue>>
    /\ UNCHANGED notResearchVars

\* one pass of the loop body up to the planner call: the search, the
\* accumulation of the unseen chunks, the break on the last step
ResearchSearch ==
    /\ rpc = "search"
    /\ \E out \in SearchOutcomes :
          LET acc == AddNewChunks([chunks |-> accumulated_chunks, seen |-> seen_ids],
                                  out, 1)
          IN  /\ step_chunks' = out
              /\ accumulated_chunks' = acc.chunks
              /\ seen_ids' = acc.seen
              /\ IF IsLastStep(step)
                 THEN rpc' = "done" /\ research_result' = acc.chunks
                 ELSE rpc' = "plan" /\ UNCHANGED research_result
    /\ retrievals' = retrievals + 1
    /\ searched' = current_query
    /\ UNCHANGED <<MAX_LOOPS, query, step, current_query, plannerCalls,
                   lastOutcome, allContinue>>
    /\ UNCHANGED notResearchVars

\* the planner call and what the loop does with its answer; the for loop
\* ends when range(MAX_LOOPS) is used up
ResearchPlan ==
    /\ rpc = "plan"
    /\ \E outcome \in PlannerOutcomes :
          LET next_move == EvaluateAndPlan(outcome)
          IN  /\ lastOutcome' = outcome
              /\ allContinue' = (allContinue /\ outcome.kind = "json"
                                   /\ DictGet(outcome.body, "status", None) = "CONTINUE")
              /\ IF DictGet(next_move, "status", None) = "COMPLETE"
                 THEN /\ rpc' = "done"
                      /\ research_result' = accumulated_chunks
                      /\ UNCHANGED <<current_query, step>>
                 ELSE /\ current_query' = PlannedQuery(next_move, current_query)
                      /\ step' = step + 1
                      /\ IF step + 1 < MAX_LOOPS
                         THEN rpc' = "search" /\ UNCHANGED research_result
                         ELSE rpc' = "done" /\ research_result' = accumulated_chunks
    /\ plannerCalls' = plannerCalls + 1
    /\ UNCHANGED <<MAX_LOOPS, query, accumulated_chunks, seen_ids, step_chunks,
                   retrievals, searched>>
    /\ UNCHANGED notResearchVars

ResearchNext == ResearchCall \/ ResearchSearch \/ ResearchPlan

(***************************************************************************)
(* CacheService: the dict, and get / set as they run under the lock.       *)
(***************************************************************************)
ENABLE_CACHE == TRUE

DEFAULT_TTL == 3600

\* capacities tried; the shipped value is 1000, 10 is the least capacity for
\* which int(MAX_CACHE_SIZE * 0.1) removes an entry
CacheSizes == {2, 10}

TrackedKey == "k1"

Filler(i) == "f" \o ToString(i)

Values == {"v1", "v2"}

\* the ttl argument of set: None, or the seconds given
NoTtl == [given |-> FALSE, v |-> 0]

SomeTtl(n) == [given |-> TRUE, v |-> n]

NoEntry == [key |-> None, value |-> None, expiry |-> 0]

\* position of key in the dict, 0 when it is not in it
CacheIndex(c, key) ==
    IF \E i \in DOMAIN c : c[i].key = key
    THEN CHOOSE i \in DOMAIN c : c[i].key = key
    ELSE 0

\* del self._cache[key]
DeleteKey(c, key) == SelectSeq(c, LAMBDA e : e.key # key)

\* faulty variant: an entry is still served at its expiry time
IsFresh_AtExpiry(entry, t) == t <= entry.expiry

\* time.time() < expiry
IsFresh(entry, t) == t < entry.expiry

\* faulty variant: the ttl given is ignored
ExpiryFor_IgnoresTtl(ttl, t) == t + DEFAULT_TTL

\* ttl = DEFAULT_TTL when None; expiry = time.time() + ttl
ExpiryFor(ttl, t) == IF ~ttl.given THEN t + DEFAULT_TTL ELSE t + ttl.v

\* int(cache_config.MAX_CACHE_SIZE * 0.1)
EvictCount == MAX_CACHE_SIZE \div 10

\* the make-room pass of set: the first EvictCount keys go when the dict is full
MakeRoom(c) ==
    IF Len(c) >= MAX_CACHE_SIZE
    THEN SubSeq(c, Min(EvictCount, Len(c)) + 1, Len(c))
    ELSE c

\* self._cache[key] = (value, expiry): a key already there keeps its place
StoreEntry(c, key, value, expiry) ==
    LET i == CacheIndex(c, key)
        e == [key |-> key, value |-> value, expiry |-> expiry]
    IN  IF i = 0 THEN Append(c, e) ELSE [c EXCEPT ![i] = e]

\* the body of get under the lock: the value and the dict it leaves
GetUnderLock(c, key, t) ==
    LET i == CacheIndex(c, key)
    IN  IF i # 0
        THEN IF IsFresh(c[i], t)
             THEN [result |-> c[i].value, cache |-> c]
             ELSE [result |-> None, cache |-> DeleteKey(c, key)]
        ELSE [result |-> None, cache |-> c]

\* the body of set under the lock
SetUnderLock(c, key, value, expiry) == StoreEntry(MakeRoom(c), key, value, expiry)

\* history records: the last get (flip turns with every get), and the last
\* set of the tracked key with the time its ttl runs out; evicted tells that
\* a make-room pass has removed the tracked entry since
NoGet == [key |-> None, result |-> None, flip |-> FALSE]

NoSet == [done |-> FALSE, value |-> None, expires |-> 0, evicted |-> FALSE]

Threads == {"t1", "t2"}

IdleThread ==
    [pc |-> "idle", key |-> None, value |-> None, expiry |-> 0,
     seen |-> NoEntry, result |-> None]

CacheIdle ==
    /\ MAX_CACHE_SIZE = 0
    /\ cache = <<>>
    /\ now = 0
    /\ lastGet = NoGet
    /\ lastSet = NoSet
    /\ fillersUsed = 0
    /\ lock = "free"
    /\ thread = [t \in Threads |-> IdleThread]

\* after construction: an empty dict
CacheInit ==
    /\ MAX_CACHE_SIZE \in CacheSizes
    /\ cache = <<>>
    /\ now = 0
    /\ lastGet = NoGet
    /\ lastSet = NoSet
    /\ fillersUsed = 0
    /\ lock = "free"
    /\ thread = [t \in Threads |-> IdleThread]

\* time passes: a second, or the default ttl at once
Tick ==
    /\ \/ now < MaxTtl /\ now' = now + 1
       \/ now < DEFAULT_TTL /\ now' = now + DEFAULT_TTL
    /\ UNCHANGED <<MAX_CACHE_SIZE, cache, lastGet, lastSet, fillersUsed, lock, thread>>
    /\ UNCHANGED notCacheVars

\* get(key), one caller at a time
CacheGet(key) ==
    /\ IF ENABLE_CACHE
       THEN LET r == GetUnderLock(cache, key, now)
            IN  /\ cache' = r.cache
                /\ lastGet' = [key |-> key, result |-> r.result, flip |-> ~lastGet.flip]
       ELSE /\ cache' = cache
            /\ lastGet' = [key |-> key, result |-> None, flip |-> ~lastGet.flip]
    /\ UNCHANGED <<MAX_CACHE_SIZE, now, lastSet, fillersUsed, lock, thread>>
    /\ UNCHANGED notCacheVars

\* set(key, value, ttl), one caller at a time
CacheSet(key, value, ttl) ==
    /\ IF ENABLE_CACHE
       THEN cache' = SetUnderLock(cache, key, value, ExpiryFor(ttl, now))
       ELSE cache' = cache
    /\ lastSet' =
          IF key = TrackedKey
          THEN [done |-> TRUE, value |-> value,
                expires |-> now + (IF ttl.given THEN ttl.v ELSE DEFAULT_TTL),
                evicted |-> FALSE]
          ELSE [lastSet EXCEPT !.evicted =
                    @ \/ (CacheIndex(cache, TrackedKey) # 0
                            /\ CacheIndex(cache', TrackedKey) = 0)]
    /\ fillersUsed' = IF key = TrackedKey THEN fillersUsed ELSE fillersUsed + 1
    /\ UNCHANGED <<MAX_CACHE_SIZE, now, lastGet, lock, thread>>
    /\ UNCHANGED notCacheVars

\* the keys that are looked up: the tracked key and one of the others
ProbedKeys == {TrackedKey, Filler(1)}

GetAny == \E key \in ProbedKeys : CacheGet(key)

SetTracked ==
    \E value \in Values, ttl \in 0..MaxTtl : CacheSet(TrackedKey, value, SomeTtl(ttl))

SetTrackedDefaultTtl == \E value \in Values : CacheSet(TrackedKey, value, NoTtl)

\* the other callers store under keys of their own, each key once, before
\* the clock starts to move
SetFiller ==
    /\ now = 0
    /\ fillersUsed < NumFillers
    /\ CacheSet(Filler(fillersUsed + 1), "v1", NoTtl)

CacheNext == Tick \/ GetAny \/ SetTracked \/ SetTrackedDefaultTtl \/ SetFiller

(***************************************************************************)
(* CacheService called from several threads: get and set statement by      *)
(* statement, the with-block of each guarded by self._lock.                *)
(***************************************************************************)
\* faulty variant: the with-block is entered without waiting for the lock
LockFree_NotAwaited == TRUE

\* "with self._lock" waits until no thread holds the lock
LockFree == lock = "free"

\* a thread calls get(key): self.enabled is checked outside the lock
ThreadCallGet(t, key) ==
    /\ thread[t].pc = "idle"
    /\ thread' = [thread EXCEPT ![t] =
                     IF ENABLE_CACHE
                     THEN [IdleThread EXCEPT !.pc = "g_lock", !.key = key]
                     ELSE IdleThread]
    /\ UNCHANGED <<MAX_CACHE_SIZE, cache, now, lastGet, lastSet, fillersUsed, lock>>
    /\ UNCHANGED notCacheVars

\* a thread calls set(key, value, ttl): the expiry is computed before the lock
ThreadCallSet(t, key, value, ttl) ==
    /\ thread[t].pc = "idle"
    /\ thread' = [thread EXCEPT ![t] =
                     IF ENABLE_CACHE
                     THEN [IdleThread EXCEPT !.pc = "s_lock", !.key = key,
                                             !.value = value,
                                             !.expiry = ExpiryFor(ttl, now)]
                     ELSE IdleThread]
    /\ UNCHANGED <<MAX_CACHE_SIZE, cache, now, lastGet, lastSet, fillersUsed, lock>>
    /\ UNCHANGED notCacheVars

\* entering the with-block
ThreadAcquire(t) ==
    /\ thread[t].pc \in {"g_lock", "s_lock"}
    /\ LockFree
    /\ lock' = t
    /\ thread' = [thread EXCEPT ![t].pc =
                     IF thread[t].pc = "g_lock" THEN "g_check" ELSE "s_room"]
    /\ UNCHANGED <<MAX_CACHE_SIZE, cache, now, lastGet, lastSet, fillersUsed>>
    /\ UNCHANGED notCacheVars

\* if key in self._cache: data, expiry = ...; if time.time() < expiry: return data
ThreadGetCheck(t) ==
    /\ thread[t].pc = "g_check"
    /\ LET i == CacheIndex(cache, thread[t].key)
       IN  thread' = [thread EXCEPT ![t] =
               IF i = 0 THEN [@ EXCEPT !.pc = "g_unlock", !.result = None]
               ELSE IF IsFresh(cache[i], now)
                    THEN [@ EXCEPT !.pc = "g_unlock", !.seen = cache[i],
                                   !.result = cache[i].value]
                    ELSE [@ EXCEPT !.pc = "g_del", !.seen = cache[i]]]
    /\ UNCHANGED <<MAX_CACHE_SIZE, cache, now, lastGet, lastSet, fillersUsed, lock>>
    /\ UNCHANGED notCacheVars

\* del self._cache[key]; a key that is gone raises KeyError
ThreadGetDelete(t) ==
    /\ thread[t].pc = "g_del"
    /\ cache' = DeleteKey(cache, thread[t].key)
    /\ thread' = [thread EXCEPT ![t].pc = "g_unlock",
                                ![t].result =
                                    IF CacheIndex(cache, thread[t].key) = 0
                                    THEN "KeyError" ELSE None]
    /\ UNCHANGED <<MAX_CACHE_SIZE, now, lastGet, lastSet, fillersUsed, lock>>
    /\ UNCHANGED notCacheVars

\* the make-room pass of set
ThreadSetRoom(t) ==
    /\ thread[t].pc = "s_room"
    /\ cache' = MakeRoom(cache)
    /\ thread' = [thread EXCEPT ![t].pc = "s_store"]
    /\ UNCHANGED <<MAX_CACHE_SIZE, now, lastGet, lastSet, fillersUsed, lock>>
    /\ UNCHANGED notCacheVars

\* self._cache[key] = (value, expiry)
ThreadSetStore(t) ==
    /\ thread[t].pc = "s_store"
    /\ cache' = StoreEntry(cache, thread[t].key, thread[t].value, thread[t].expiry)
    /\ thread' = [thread EXCEPT ![t].pc = "s_unlock"]
    /\ UNCHANGED <<MAX_CACHE_SIZE, now, lastGet, lastSet, fillersUsed, lock>>
    /\ UNCHANGED notCacheVars

\* leaving the with-block, and the return
ThreadRelease(t) ==
    /\ thread[t].pc \in {"g_unlock", "s_unlock"}
    /\ lock' = "free"
    /\ thread' = [thread EXCEPT ![t] = IdleThread]
    /\ UNCHANGED <<MAX_CACHE_SIZE, cache, now, lastGet, lastSet, fillersUsed>>
    /\ UNCHANGED notCacheVars

\* the keys the concurrent callers contend for
ContendedKeys == {TrackedKey}

CallGet == \E t \in Threads, key \in ContendedKeys : ThreadCallGet(t, key)

CallSet ==
    \E t \in Threads, key \in ContendedKeys, value \in Values, ttl \in 0..MaxTtl :
        ThreadCallSet(t, key, value, SomeTtl(ttl))

CallSetDefaultTtl ==
    \E t \in Threads, key \in ContendedKeys, value \in Values :
        ThreadCallSet(t, key, value, NoTtl)

Acquire == \E t \in Threads : ThreadAcquire(t)

GetCheck == \E t \in Threads : ThreadGetCheck(t)

GetDelete == \E t \in Threads : ThreadGetDelete(t)

SetRoom == \E t \in Threads : ThreadSetRoom(t)

SetStore == \E t \in Threads : ThreadSetStore(t)

Release == \E t \in Threads : ThreadRelease(t)

CacheThreadsNext ==
    \/ Tick \/ CallGet \/ CallSet \/ CallSetDefaultTtl \/ Acquire
    \/ GetCheck \/ GetDelete \/ SetRoom \/ SetStore \/ Release

(***************************************************************************)
(* GraphTraversal: _bfs_paths, _score_path and find_paths over the edges   *)
(* GraphService.get_node_edges returns.  Confidences and weights are       *)
(* counted in hundredths.                                                  *)
(***************************************************************************)
NodeIds == {"n" \o ToString(i) : i \in 1..NumNodes}

NodeId(i) == "n" \o ToString(i)

NodeIndex(id) == CHOOSE i \in 1..NumNodes : NodeId(i) = id

MAX_HOPS == 3

MAX_PATHS_PER_QUERY == 10

MIN_CONFIDENCE == 40

SOFT_CONFIDENCE == 70

\* the cap of _bfs_paths on the paths found for one pair
FOUND_CAP == 20

DEFAULT_CONFIDENCE == 80

\* graph_config.EDGE_WEIGHTS, the entries for the edge types of the model
EDGE_WEIGHTS == [USES |-> 85, RELATES_TO |-> 65, MENTIONED_IN |-> 50]

DEFAULT_EDGE_WEIGHT == 50

\* graph_config.PATH_SCORING_WEIGHTS, in tenths
PATH_SCORING_WEIGHTS == [length |-> 3, edge_type |-> 4, confidence |-> 3]

\* the properties stored on relationships: confidences on both sides of
\* the two thresholds and at them, a relationship without a confidence,
\* and a type EDGE_WEIGHTS does not list
EdgeProps ==
    << [type |-> "USES", confidence |-> 90],
       [type |-> "RELATES_TO", confidence |-> 20],
       [type |-> "MENTIONED_IN", confidence |-> 40],
       [type |-> "LINKS"],
       [type |-> "USES", confidence |-> 70],
       [type |-> "RELATES_TO", confidence |-> 55] >>

\* the k-th relationship from node i to node j, as get_node_edges returns it
EdgeOf(i, j, k) ==
    LET p == EdgeProps[((i + 2 * j + k) % Len(EdgeProps)) + 1]
        base == [from_id |-> NodeId(i), to_id |-> NodeId(j), n |-> k, type |-> p.type]
    IN  IF "confidence" \in DOMAIN p
        THEN [from_id |-> NodeId(i), to_id |-> NodeId(j), n |-> k, type |-> p.type,
              confidence |-> p.confidence]
        ELSE base

\* a relationship whose end node carries no id property
DanglingEdge(i) ==
    [from_id |-> NodeId(i), to_id |-> None, n |-> 0, type |-> "USES", confidence |-> 90]

RECURSIVE ConcatAll(_)
ConcatAll(ss) == IF ss = <<>> THEN <<>> ELSE ss[1] \o ConcatAll(Tail(ss))

\* get_node_edges(node, direction='outgoing') for node i of a graph with the
\* adjacency adj, fan parallel relationships per adjacent pair, and possibly
\* a relationship to a node without id
OutEdges(adj, fan, dangling, i) ==
    (IF dangling THEN <<DanglingEdge(i)>> ELSE <<>>) \o
    ConcatAll([j \in 1..NumNodes |->
                 IF <<i, j>> \in adj THEN [k \in 1..fan |-> EdgeOf(i, j, k)] ELSE <<>>])

RatMul(a, b) == Rat(a[1] * b[1], a[2] * b[2])

\* a - b for a >= b
RatSub(a, b) ==
    LET l == LCM(a[2], b[2])
    IN  Rat(a[1] * (l \div a[2]) - b[1] * (l \div b[2]), l)

Hundredths(n) == Rat(n, 100)

RECURSIVE MinOf(_)
MinOf(s) == IF Len(s) = 1 THEN s[1] ELSE Min(s[1], MinOf(Tail(s)))

\* not x, for a node id
FalsyId(x) == x = None \/ x = ""

BfsItem(current, path, visited) == [current |-> current, path |-> path, visited |-> visited]

\* faulty variant: the inner loop does not stop at the cap
CapReached_Never(found) == FALSE

\* len(found_paths) >= 20
CapReached(found) == Len(found) >= FOUND_CAP

\* faulty variant: a node already on the path is entered again
MayVisit_IgnoresVisited(next_node, item, hops) == Len(item.path) < hops - 1

\* next_node not in visited and len(path) < hops - 1
MayVisit(next_node, item, hops) ==
    next_node \notin item.visited /\ Len(item.path) < hops - 1

\* for edge in edges: ... of one iteration of the while loop
RECURSIVE ScanEdges(_, _, _, _, _)
ScanEdges(edges, item, end, hops, acc) ==
    IF edges = <<>> THEN acc
    ELSE LET edge == edges[1]
             next_node == edge.to_id
         IN  IF FalsyId(next_node)
             THEN ScanEdges(Tail(edges), item, end, hops, acc)
             ELSE IF next_node = end
             THEN LET found == Append(acc.found, Append(item.path, edge))
                  IN  IF CapReached(found)
                      THEN [acc EXCEPT !.found = found]
                      ELSE ScanEdges(Tail(edges), item, end, hops,
                                     [acc EXCEPT !.found = found])
             ELSE IF MayVisit(next_node, item, hops)
             THEN ScanEdges(Tail(edges), item, end, hops,
                            [acc EXCEPT !.queue =
                                Append(@, BfsItem(next_node, Append(item.path, edge),
                                                  item.visited \cup {next_node}))])
             ELSE ScanEdges(Tail(edges), item, end, hops, acc)

\* faulty variant: three hops count like any longer path
LengthScore_ThreeHopsAsLong(hop_count) ==
    CASE hop_count = 1 -> Hundredths(100)
      [] hop_count = 2 -> Hundredths(80)
      [] OTHER -> Hundredths(40)

\* {1: 1.0, 2: 0.8, 3: 0.6}.get(hop_count, 0.4)
LengthScore(hop_count) ==
    CASE hop_count = 1 -> Hundredths(100)
      [] hop_count = 2 -> Hundredths(80)
      [] hop_count = 3 -> Hundredths(60)
      [] OTHER -> Hundredths(40)

EdgeWeight(edge) ==
    LET t == DictGet(edge, "type", "")
    IN  IF t \in DOMAIN EDGE_WEIGHTS THEN EDGE_WEIGHTS[t] ELSE DEFAULT_EDGE_WEIGHT

Confidences(path) == [i \in DOMAIN path |-> DictGet(path[i], "confidence", DEFAULT_CONFIDENCE)]

\* what _score_path returns for None
NoScore == [is_none |-> TRUE]

\* faulty variant: the floor is tested on the mean, not on the minimum
BelowFloor_OfMean(confidences) ==
    SumInts(confidences) < MIN_CONFIDENCE * Len(confidences)

\* min_confidence < graph_config.MIN_CONFIDENCE
BelowFloor(confidences) == MinOf(confidences) < MIN_CONFIDENCE

ScorePath(path) ==
    IF path = <<>> THEN NoScore
    ELSE
    LET hop_count == Len(path)
        length_score == LengthScore(hop_count)
        edge_score == RatDivInt(Hundredths(SumInts([i \in DOMAIN path |-> EdgeWeight(path[i])])),
                                hop_count)
        confidences == Confidences(path)
        min_confidence == MinOf(confidences)
        avg0 == RatDivInt(Hundredths(SumInts(confidences)), hop_count)
        normalized == RatDiv(Hundredths(min_confidence - MIN_CONFIDENCE),
                             Hundredths(SOFT_CONFIDENCE - MIN_CONFIDENCE))
        avg_confidence ==
            IF min_confidence < SOFT_CONFIDENCE
            THEN RatMul(avg0, RatAdd(Rat(1, 2), RatMul(Rat(1, 2), normalized)))
            ELSE avg0
        final_score ==
            RatAdd(RatAdd(RatMul(Rat(PATH_SCORING_WEIGHTS.length, 10), length_score),
                          RatMul(Rat(PATH_SCORING_WEIGHTS.edge_type, 10), edge_score)),
                   RatMul(Rat(PATH_SCORING_WEIGHTS.confidence, 10), avg_confidence))
    IN  IF BelowFloor(confidences) THEN NoScore
        ELSE [is_none |-> FALSE,
              path |-> path,
              score |-> final_score,
              hop_count |-> hop_count,
              nodes |-> <<DictGet(path[1], "from_id", "")>> \o
                        [i \in DOMAIN path |-> DictGet(path[i], "to_id", "")],
              edges |-> [i \in DOMAIN path |-> DictGet(path[i], "type", "")],
              confidence_scores |-> confidences,
              low_confidence_warning |-> min_confidence < 70]

\* for path in all_paths: scored = ...; if scored and scored['score'] > 0
RECURSIVE ScoreAll(_)
ScoreAll(paths) ==
    IF paths = <<>> THEN <<>>
    ELSE LET scored == ScorePath(paths[1])
         IN  IF ~scored.is_none /\ RatLess(RatZero, scored.score)
             THEN <<scored>> \o ScoreAll(Tail(paths))
             ELSE ScoreAll(Tail(paths))

\* list.sort(key=score, reverse=True): stable, descending
RECURSIVE InsertByScore(_, _)
InsertByScore(sorted, x) ==
    IF sorted = <<>> THEN <<x>>
    ELSE IF RatLess(sorted[1].score, x.score)
         THEN <<x>> \o sorted
         ELSE <<sorted[1]>> \o InsertByScore(Tail(sorted), x)

RECURSIVE SortByScore(_, _)
SortByScore(items, n) ==
    IF n = 0 THEN <<>> ELSE InsertByScore(SortByScore(items, n - 1), items[n])

\* lines 72-84 of find_paths: score, filter, sort, keep the best
ScoreAndRank(all_paths) ==
    LET kept == ScoreAll(all_paths)
    IN  Take(SortByScore(kept, Len(kept)), MAX_PATHS_PER_QUERY)

\* faulty variant: the deque is popped from the right, the newest item first
BfsStep_PopsNewest(g, q, found, end, hops) ==
    LET item == q[Len(q)]
        rest == SubSeq(q, 1, Len(q) - 1)
    IN  IF Len(item.path) >= hops
        THEN [queue |-> rest, found |-> found]
        ELSE ScanEdges(OutEdges(g.adj, g.fan, g.dangling, NodeIndex(item.current)),
                       item, end, hops, [queue |-> rest, found |-> found])

\* the body of "while queue and len(found_paths) < 20", once
BfsStep(g, q, found, end, hops) ==
    LET item == Head(q)
        rest == Tail(q)
    IN  IF Len(item.path) >= hops
        THEN [queue |-> rest, found |-> found]
        ELSE ScanEdges(OutEdges(g.adj, g.fan, g.dangling, NodeIndex(item.current)),
                       item, end, hops, [queue |-> rest, found |-> found])

\* _bfs_paths run to its return
RECURSIVE BfsLoop(_, _, _, _, _)
BfsLoop(g, q, found, end, hops) ==
    IF q = <<>> \/ CapReached(found) THEN found
    ELSE LET after == BfsStep(g, q, found, end, hops)
         IN  BfsLoop(g, after.queue, after.found, end, hops)

BfsPaths(g, start, end, hops) == BfsLoop(g, <<BfsItem(start, <<>>, {start})>>, <<>>, end, hops)

\* lines 64-70 of find_paths: the paths of every pair of different ids
AllPaths(g, start_ids, end_ids, hops) ==
    ConcatAll([i \in DOMAIN start_ids |->
        ConcatAll([j \in DOMAIN end_ids |->
            IF start_ids[i] # end_ids[j]
            THEN BfsPaths(g, start_ids[i], end_ids[j], hops)
            ELSE <<>>])])

\* GraphService as shipped keeps no node table: it has these attributes only
GraphServiceAttributes == {"uri", "user", "password", "database", "driver"}

\* _resolve_entities: the first reference is looked up in
\* self.graph_service.nodes, an attribute GraphService does not have
ResolveEntities(entity_refs) ==
    IF entity_refs # <<>> /\ "nodes" \notin GraphServiceAttributes
    THEN [raised |-> TRUE, ids |-> <<>>]
    ELSE [raised |-> FALSE, ids |-> entity_refs]

EntityRefs == {<<>>, <<NodeId(1)>>, <<NodeId(NumNodes)>>}

\* the graphs searched: any relationships, self-loops included, out of the
\* nodes before the last (the searches end at the last node, whose own
\* relationships _bfs_paths never asks for)
Graphs ==
    [adj : SUBSET ((1..(NumNodes - 1)) \X (1..NumNodes)), fan : {1, MaxFan},
     dangling : BOOLEAN]

NoFindPaths == [kind |-> "none", paths |-> <<>>]

GraphInit ==
    /\ graph \in Graphs
    /\ gpc = "ready"
    /\ start_id = None
    /\ end_id = None
    /\ max_hops = 0
    /\ queue = <<>>
    /\ found_paths = <<>>
    /\ scored_paths = <<>>
    /\ find_paths_result = NoFindPaths

GraphIdle ==
    /\ graph = [adj |-> {}, fan |-> 1, dangling |-> FALSE]
    /\ gpc = "idle"
    /\ start_id = None
    /\ end_id = None
    /\ max_hops = 0
    /\ queue = <<>>
    /\ found_paths = <<>>
    /\ scored_paths = <<>>
    /\ find_paths_result = NoFindPaths

\* find_paths(start_entities, end_entities): the references are resolved
\* first; without ids on both sides it returns [] before any search
FindPathsCall ==
    /\ gpc = "ready"
    /\ \E start_entities \in EntityRefs, end_entities \in EntityRefs :
         LET start_ids == ResolveEntities(start_entities)
             end_ids == IF start_ids.raised THEN start_ids
                        ELSE ResolveEntities(end_entities)
         IN  IF start_ids.raised \/ end_ids.raised
             THEN /\ gpc' = "raised"
                  /\ find_paths_result' = [kind |-> "AttributeError", paths |-> <<>>]
                  /\ UNCHANGED <<start_id, end_id, max_hops, queue, found_paths>>
             ELSE IF start_ids.ids = <<>> \/ end_ids.ids = <<>>
             THEN /\ gpc' = "returned"
                  /\ find_paths_result' = [kind |-> "list", paths |-> <<>>]
                  /\ UNCHANGED <<start_id, end_id, max_hops, queue, found_paths>>
             ELSE /\ gpc' = "returned"
                  /\ find_paths_result' =
                        [kind |-> "list",
                         paths |-> ScoreAndRank(AllPaths(graph, start_ids.ids,
                                                         end_ids.ids, MAX_HOPS))]
                  /\ UNCHANGED <<start_id, end_id, max_hops, queue, found_paths>>
    /\ UNCHANGED <<graph, scored_paths>>
    /\ UNCHANGED notGraphVars

\* _bfs_paths(start_id, end_id, max_hops) is entered for a pair of
\* different nodes: queue = deque([(start_id, [], {start_id})])
BfsCall ==
    /\ gpc = "ready"
    /\ \E h \in 0..MaxHopsBound :
         /\ start_id' = NodeId(1)
         /\ end_id' = NodeId(NumNodes)
         /\ max_hops' = h
         /\ queue' = <<BfsItem(NodeId(1), <<>>, {NodeId(1)})>>
    /\ found_paths' = <<>>
    /\ gpc' = "bfs"
    /\ UNCHANGED <<graph, scored_paths, find_paths_result>>
    /\ UNCHANGED notGraphVars

\* one iteration of "while queue and len(found_paths) < 20"
BfsIterate ==
    /\ gpc = "bfs"
    /\ queue # <<>>
    /\ ~CapReached(found_paths)
    /\ LET after == BfsStep(graph, queue, found_paths, end_id, max_hops)
       IN  /\ queue' = after.queue
           /\ found_paths' = after.found
    /\ UNCHANGED <<graph, gpc, start_id, end_id, max_hops, scored_paths, find_paths_result>>
    /\ UNCHANGED notGraphVars

\* the loop condition fails: return found_paths
BfsReturn ==
    /\ gpc = "bfs"
    /\ (queue = <<>> \/ CapReached(found_paths))
    /\ gpc' = "found"
    /\ UNCHANGED <<graph, start_id, end_id, max_hops, queue, found_paths, scored_paths,
                   find_paths_result>>
    /\ UNCHANGED notGraphVars

\* the paths found are scored, filtered, sorted and cut to the best ten
ScoreFound ==
    /\ gpc = "found"
    /\ scored_paths' = ScoreAndRank(found_paths)
    /\ gpc' = "scored"
    /\ UNCHANGED <<graph, start_id, end_id, max_hops, queue, found_paths, find_paths_result>>
    /\ UNCHANGED notGraphVars

GraphNext == FindPathsCall \/ BfsCall \/ BfsIterate \/ BfsReturn \/ ScoreFound

(***************************************************************************)
(* QueryRouter.route_query.  Queries are Python strings; the regular       *)
(* expressions are searched character by character.                        *)
(***************************************************************************)
UPPER == "ABCDEFGHIJKLMNOPQRSTUVWXYZ"

LOWER == "abcdefghijklmnopqrstuvwxyz"

DIGITS == "0123456789_"

CharAt(s, i) == SubSeq(s, i, i)

\* the character occurs in the string
InString(c, s) == \E i \in 1..Len(s) : CharAt(s, i) = c

LowerChar(c) ==
    IF InString(c, UPPER)
    THEN CharAt(LOWER, CHOOSE i \in 1..Len(UPPER) : CharAt(UPPER, i) = c)
    ELSE c

\* str.lower()
RECURSIVE StrLower(_)
StrLower(s) == IF s = "" THEN "" ELSE LowerChar(CharAt(s, 1)) \o StrLower(SubSeq(s, 2, Len(s)))

IsSpace(c) == c = " "

\* str.strip()
RECURSIVE StrStrip(_)
StrStrip(s) ==
    IF s = "" THEN ""
    ELSE IF IsSpace(CharAt(s, 1)) THEN StrStrip(SubSeq(s, 2, Len(s)))
    ELSE IF IsSpace(CharAt(s, Len(s))) THEN StrStrip(SubSeq(s, 1, Len(s) - 1))
    ELSE s

\* len(str.split()): the maximal runs of characters that are not whitespace
SplitCount(s) ==
    Cardinality({i \in 1..Len(s) :
                    /\ ~IsSpace(CharAt(s, i))
                    /\ (i = 1 \/ IsSpace(CharAt(s, i - 1)))})

\* \w of the regular expressions
IsWordChar(c) == InString(c, LOWER) \/ InString(c, UPPER) \/ InString(c, DIGITS)

\* \b at the gap before position i (1..Len(s)+1)
IsWordBoundary(s, i) ==
    LET before == i > 1 /\ IsWordChar(CharAt(s, i - 1))
        after == i <= Len(s) /\ IsWordChar(CharAt(s, i))
    IN  before # after

\* kw in s
Contains(s, kw) == \E i \in 1..(Len(s) - Len(kw) + 1) : SubSeq(s, i, i + Len(kw) - 1) = kw

\* re.search(r'\bliteral\b', s)
SearchBounded(s, literal) ==
    \E i \in 1..(Len(s) - Len(literal) + 1) :
        /\ SubSeq(s, i, i + Len(literal) - 1) = literal
        /\ IsWordBoundary(s, i)
        /\ IsWordBoundary(s, i + Len(literal))

\* the strings each pattern list matches between word boundaries
GREETING_PATTERNS ==
    {"hi", "hello", "hey", "greetings", "good morning", "good afternoon", "good evening",
     "how are you", "whats up", "what's up", "howdy", "yo"}

CHITCHAT_PATTERNS ==
    {"thank you", "thanks", "thx", "ty", "appreciate i", "appreciate it",
     "ok", "okay", "got it", "understood", "i see", "alright", "cool", "nice",
     "bye", "goodbye", "see you", "cya", "later",
     "youre welcome", "you're welcome", "no problem"}

SIMPLE_FACTUAL_INDICATORS ==
    {"what is", "who is", "when was", "when is", "when did", "where is", "where was",
     "define", "meaning of"}

AUTO_TRIGGER_KEYWORDS ==
    {"compare", "difference", "research", "deep dive", "comprehensive", "history"}

ENABLE_AGENTIC_RAG == TRUE

\* compiled_regex.search(query_lower)
RegexSearch(patterns, s) == \E literal \in patterns : SearchBounded(s, literal)

\* faulty variant: a keyword counts only as a whole word
HasTriggerKeyword_WholeWord(s) == \E kw \in AUTO_TRIGGER_KEYWORDS : SearchBounded(s, kw)

\* any(kw in query_lower for kw in AUTO_TRIGGER_KEYWORDS)
HasTriggerKeyword(s) == \E kw \in AUTO_TRIGGER_KEYWORDS : Contains(s, kw)

GreetingBundle ==
    [skip_rag |-> TRUE, skip_hyde |-> TRUE, use_cache |-> FALSE,
     reasoning |-> "Detected greeting pattern"]

ChitchatBundle ==
    [skip_rag |-> TRUE, skip_hyde |-> TRUE, use_cache |-> FALSE,
     reasoning |-> "Detected chitchat/acknowledgment"]

AgenticBundle ==
    [skip_rag |-> FALSE, skip_hyde |-> FALSE, use_cache |-> TRUE, use_agent |-> TRUE,
     reasoning |-> "Complex research/comparison query detected"]

SimpleBundle ==
    [skip_rag |-> FALSE, skip_hyde |-> TRUE, use_cache |-> TRUE,
     reasoning |-> "Short factual query - exact matching preferred"]

ComplexBundle ==
    [skip_rag |-> FALSE, skip_hyde |-> FALSE, use_cache |-> TRUE,
     reasoning |-> "Standard complex query"]

\* faulty variant: the factual pattern counts up to 5 words only
IsSimple_FiveWords(query_lower, word_count) ==
    (word_count <= 5 /\ RegexSearch(SIMPLE_FACTUAL_INDICATORS, query_lower)) \/ word_count <= 3

\* (word_count <= 6 and simple_regex.search(query_lower)) or (word_count <= 3)
IsSimple(query_lower, word_count) ==
    (word_count <= 6 /\ RegexSearch(SIMPLE_FACTUAL_INDICATORS, query_lower)) \/ word_count <= 3

\* faulty variant: the trigger keywords are tested before the small talk
FirstRule_AgenticFirst(query_lower, word_count) ==
    IF ENABLE_AGENTIC_RAG /\ HasTriggerKeyword(query_lower) THEN "agentic"
    ELSE IF RegexSearch(GREETING_PATTERNS, query_lower) THEN "greeting"
    ELSE IF RegexSearch(CHITCHAT_PATTERNS, query_lower) THEN "chitchat"
    ELSE IF IsSimple(query_lower, word_count) THEN "simple"
    ELSE "complex"

\* the chain of tests of route_query
FirstRule(query_lower, word_count) ==
    IF RegexSearch(GREETING_PATTERNS, query_lower) THEN "greeting"
    ELSE IF RegexSearch(CHITCHAT_PATTERNS, query_lower) THEN "chitchat"
    ELSE IF ENABLE_AGENTIC_RAG /\ HasTriggerKeyword(query_lower) THEN "agentic"
    ELSE IF IsSimple(query_lower, word_count) THEN "simple"
    ELSE "complex"

BundleOf(route) ==
    CASE route = "greeting" -> GreetingBundle
      [] route = "chitchat" -> ChitchatBundle
      [] route = "agentic" -> AgenticBundle
      [] route = "simple" -> SimpleBundle
      [] OTHER -> ComplexBundle

RouteQuery(q) ==
    LET query_lower == StrStrip(StrLower(q))
        word_count == SplitCount(q)
        route == FirstRule(query_lower, word_count)
    IN  [route |-> route, metadata |-> BundleOf(route)]

should_use_rag(route) == route \notin {"greeting", "chitchat"}

should_use_hyde(route) == route \in {"complex", "agentic"}

should_use_agent(route) == route = "agentic"

\* the pieces queries are put together from: a greeting in capitals, an
\* acknowledgment, a word holding a trigger keyword, a factual indicator,
\* a word that holds "hi" inside, and three plain words
QueryPieces == {"Hi", "ok", "compared", "what is", "this", "a b c"}

RECURSIVE JoinPieces(_)
JoinPieces(ps) ==
    IF ps = <<>> THEN ""
    ELSE IF Len(ps) = 1 THEN ps[1]
    ELSE ps[1] \o " " \o JoinPieces(Tail(ps))

RouterQueries == {JoinPieces(ps) : ps \in SeqsUpTo(QueryPieces, MaxPieces)}

NoRoute == [route |-> None, metadata |-> [reasoning |-> None]]

RouterInit ==
    /\ router_query \in RouterQueries
    /\ qpc = "call"
    /\ routed = NoRoute

RouterIdle ==
    /\ router_query = None
    /\ qpc = "idle"
    /\ routed = NoRoute

\* route_query(query)
CallRouteQuery ==
    /\ qpc = "call"
    /\ routed' = RouteQuery(router_query)
    /\ qpc' = "returned"
    /\ UNCHANGED router_query
    /\ UNCHANGED notRouterVars

RouterNext == CallRouteQuery

(***************************************************************************)
(* ChatService.stream_chat_response and ChatService._retrieve_rag_context. *)
(* Every call into another service either returns or raises; which of the  *)
(* two, and what it returns, is the environment's choice.                  *)
(***************************************************************************)
GREETING_REPLY == "Hello! I'm Cosmic AI, your intelligent assistant."

THANKS_REPLY == "You're welcome! Feel free to ask if you have any other questions."

OTHER_REPLY == "Is there anything else I can help you with?"

\* faulty variant: only greetings have a templated reply
FormatQuickResponse_GreetingOnly(route, q) ==
    IF route = "greeting" THEN GREETING_REPLY ELSE None

\* QueryRouter.format_quick_response
FormatQuickResponse(route, q) ==
    IF route = "greeting" THEN GREETING_REPLY
    ELSE IF route = "chitchat"
         THEN IF \E word \in {"thank", "thanks", "appreciate"} : Contains(StrLower(q), word)
              THEN THANKS_REPLY
              ELSE OTHER_REPLY
         ELSE None

\* the server-sent events the generator yields
ContentEvent(text) == [kind |-> "content", text |-> text]

DoneEvent == [kind |-> "done", text |-> ""]

ErrorEvent == [kind |-> "error", text |-> ""]

LLM_TEXT == "<completion>"

\* str.split()
RECURSIVE Words(_)
Words(s) ==
    IF s = "" THEN <<>>
    ELSE IF IsSpace(CharAt(s, 1)) THEN Words(SubSeq(s, 2, Len(s)))
    ELSE LET n == CHOOSE k \in 1..Len(s) :
                     /\ \A i \in 1..k : ~IsSpace(CharAt(s, i))
                     /\ (k = Len(s) \/ IsSpace(CharAt(s, k + 1)))
         IN  <<SubSeq(s, 1, n)>> \o Words(SubSeq(s, n + 1, Len(s)))

STOP_WORDS ==
    {"what", "when", "where", "how", "why", "who", "the", "is", "are", "was", "were",
     "to", "from", "in", "on", "at", "by", "with", "and", "or"}

\* search_by_query: the words kept as entities (counted before the
\* punctuation is stripped from them)
QueryWords(q) == SelectSeq(Words(StrLower(q)), LAMBDA w : Len(w) > 2 /\ w \notin STOP_WORDS)

\* GraphTraversal.search_by_query: with fewer than 2 entities it returns []
\* before any search; otherwise find_paths resolves the entities first
SearchByQuery(q) ==
    LET query_words == QueryWords(q)
    IN  IF Len(query_words) < 2
        THEN [raised |-> FALSE, hits |-> <<>>]
        ELSE IF ResolveEntities(Take(query_words, 5)).raised
             THEN [raised |-> TRUE, hits |-> <<>>]
             ELSE [raised |-> FALSE, hits |-> <<>>]

\* what vector_store.search and bm25_service.search may return
vHit0 == [content |-> "x", file_id |-> "f1", chunk_index |-> 0, score |-> 9]

vHit1 == [content |-> "y", file_id |-> "f1", chunk_index |-> 1, score |-> 8]

VectorResults == {<<>>, <<vHit0>>, <<vHit0, vHit1>>}

bHit0 == <<[id |-> "b7", content |-> "y"], 15>>

Bm25Results == {<<>>, <<bHit0>>}

\* vector_results_formatted
FormatVector(vector_results) ==
    [i \in DOMAIN vector_results |->
        <<[id |-> "vector_" \o ToString(i - 1),
           content |-> vector_results[i].content,
           file_id |-> vector_results[i].file_id,
           chunk_index |-> vector_results[i].chunk_index],
          vector_results[i].score>>]

(***************************************************************************)
(* QueryTransformService: the query analysis, the hypothetical document    *)
(* and its critique.  Weights are in hundredths.                           *)
(***************************************************************************)

\* query_config.WEIGHT_PROFILES
WEIGHT_PROFILES ==
    [factual    |-> [vector |-> 30, bm25 |-> 50, graph |-> 20],
     conceptual |-> [vector |-> 60, bm25 |-> 20, graph |-> 20],
     relational |-> [vector |-> 20, bm25 |-> 20, graph |-> 60],
     code_error |-> [vector |-> 10, bm25 |-> 80, graph |-> 10],
     balanced   |-> [vector |-> 35, bm25 |-> 35, graph |-> 30]]

\* a call of the language model that raised, or an answer that is no JSON
LLMFailure == "<llm failure>"

\* analyze_query: the profile of the query type the model named, the balanced
\* one for an unknown type and when the call fails
AnalyzeQuery(query_type) ==
    IF query_type = LLMFailure
    THEN [weights |-> WEIGHT_PROFILES["balanced"], type |-> "balanced"]
    ELSE [weights |-> IF query_type \in DOMAIN WEIGHT_PROFILES
                      THEN WEIGHT_PROFILES[query_type]
                      ELSE WEIGHT_PROFILES["balanced"],
          type |-> query_type]

\* generate_hyde_doc: the passage written, the query itself when the call fails
GenerateHydeDoc(q, passage) == IF passage = LLMFailure THEN q ELSE passage

\* the critique assumed when the call fails
CRITIQUE_FALLBACK ==
    [confidence |-> 50, recommendation |-> "trust_medium", alternative_causes |-> <<>>]

\* critique_hyde: the JSON object of the model as it came, or the fallback
CritiqueHyde(reply) == IF reply = [failure |-> TRUE] THEN CRITIQUE_FALLBACK ELSE reply

\* faulty variant: the medium band begins one point too late
AdjustWeights_MediumFrom41(current_weights, critique_result) ==
    LET confidence == DictGet(critique_result, "confidence", 50)
    IN  IF confidence >= 70 THEN [vector |-> 50, bm25 |-> 30, graph |-> 20]
        ELSE IF confidence > 40 THEN [vector |-> 35, bm25 |-> 40, graph |-> 25]
        ELSE [vector |-> 20, bm25 |-> 50, graph |-> 30]

\* adjust_weights(current_weights, critique_result)
AdjustWeights(current_weights, critique_result) ==
    LET confidence == DictGet(critique_result, "confidence", 50)
    IN  IF confidence >= 70 THEN [vector |-> 50, bm25 |-> 30, graph |-> 20]
        ELSE IF confidence >= 40 THEN [vector |-> 35, bm25 |-> 40, graph |-> 25]
        ELSE [vector |-> 20, bm25 |-> 50, graph |-> 30]

\* ", ".join(alts)
RECURSIVE JoinComma(_)
JoinComma(alts) ==
    IF alts = <<>> THEN ""
    ELSE IF Len(alts) = 1 THEN alts[1]
    ELSE alts[1] \o ", " \o JoinComma(Tail(alts))

\* chat_service.py: [weights.get('vector', 0.35), weights.get('bm25', 0.35),
\* weights.get('graph', 0.30)]
WeightList(w) ==
    <<DictGet(w, "vector", 35), DictGet(w, "bm25", 35), DictGet(w, "graph", 30)>>

\* chat_service.py lines 292-303: the text searched once the critique is in
HedgedQuery(q, hyde_doc, critique) ==
    IF DictGet(critique, "recommendation", None) = "trust_low"
    THEN LET alts == DictGet(critique, "alternative_causes", <<>>)
         IN  IF alts # <<>>
             THEN q \o "\n" \o "Alternative causes: " \o JoinComma(alts)
             ELSE q
    ELSE hyde_doc

\* search_weights = [0.35, 0.35, 0.30], in hundredths
DEFAULT_SEARCH_WEIGHTS == <<35, 35, 30>>

\* the query types the analysis may name, or its failure
AnalysisReplies == {"code_error", LLMFailure}

\* what the critique may answer: the three fields are the model's own, so
\* the recommendation need not follow the confidence
CritiqueReplies ==
    {[failure |-> TRUE],
     [confidence |-> 80, recommendation |-> "trust_high", alternative_causes |-> <<>>],
     [confidence |-> 30, recommendation |-> "trust_low",
      alternative_causes |-> <<"alt1", "alt2">>],
     [confidence |-> 30, recommendation |-> "trust_medium",
      alternative_causes |-> <<"alt1">>]}

\* nothing of the transformation has run
NoTransform == [failed |-> {}]

HYDE_DOC == "<hyde_doc>"

\* the scores the cross-encoder may give a candidate
RerankScores == {-1, 0, 1}

\* settings.TOP_K_RESULTS
TopKs == {1, 2}

RECURSIVE InsertByRerank(_, _)
InsertByRerank(sorted, x) ==
    IF sorted = <<>> THEN <<x>>
    ELSE IF RatLess(Head(sorted).score, x.score)
         THEN <<x>> \o sorted
         ELSE <<Head(sorted)>> \o InsertByRerank(Tail(sorted), x)

RECURSIVE SortByRerank(_, _)
SortByRerank(items, n) ==
    IF n = 0 THEN <<>> ELSE InsertByRerank(SortByRerank(items, n - 1), items[n])

\* RerankerService.rerank(query, candidates, top_k, threshold=0.0); the
\* candidates are fused results, the result pairs a candidate with its score
Rerank(candidates, model, top_k) ==
    IF candidates = <<>> THEN <<>>
    ELSE IF model.kind \in {"not_loaded", "predict_raised"}
    THEN LET top == Take(candidates, top_k)
         IN  [i \in DOMAIN top |->
                 [fused |-> top[i], score |-> top[i].rrf_score, reranked |-> FALSE]]
    ELSE LET reranked == [i \in DOMAIN candidates |->
                             [fused |-> candidates[i],
                              score |-> RatOfInt(model.scores[i]),
                              reranked |-> TRUE]]
             kept == SelectSeq(reranked, LAMBDA r : RatLeq(RatZero, r.score))
         IN  Take(SortByRerank(kept, Len(kept)), top_k)

\* the context chunk built from a reranked result
ContextChunk(r) ==
    [content |-> r.fused.chunk.content,
     score |-> r.score,
     file_id |-> DictGet(r.fused.chunk, "file_id", "unknown"),
     chunk_index |-> DictGet(r.fused.chunk, "chunk_index", 0),
     appeared_in |-> r.fused.appeared_in]

\* a context a previous retrieval cached
CachedContext ==
    <<[content |-> "x", score |-> RatOfInt(1), file_id |-> "f1", chunk_index |-> 0,
       appeared_in |-> <<"Vector">>]>>

\* chunks the research agent may return
AgentChunks == {<<>>, <<[id |-> "a", content |-> "x"]>>}

\* what the environment decides for the calls of the retrieval try block:
\* each sub-search raises or returns, the fusion and the reranker raise or
\* not, the cross-encoder is loaded or not and scores the candidates
QuietEnv ==
    [vector_raises |-> FALSE, vector_results |-> <<>>,
     bm25_raises |-> FALSE, bm25_results |-> <<>>,
     traversal_raises |-> FALSE, fuse_raises |-> FALSE, rerank_raises |-> FALSE,
     rerank_kind |-> "not_loaded", scores |-> <<>>, top_k |-> 1, set_raises |-> FALSE]

\* both stores answer
AnsweringEnvs ==
    {[QuietEnv EXCEPT !.vector_results = v, !.bm25_results = b] :
        v \in VectorResults, b \in Bm25Results}

\* the environments, one for every way the block can go: the first call
\* that raises ends it, so what the later calls would have done is left out
SearchEnvs ==
    {[QuietEnv EXCEPT !.vector_raises = TRUE]}
    \cup {[QuietEnv EXCEPT !.vector_results = v, !.bm25_raises = TRUE] : v \in VectorResults}
    \cup {[e EXCEPT !.traversal_raises = TRUE] : e \in AnsweringEnvs}
    \cup {[e EXCEPT !.fuse_raises = TRUE] : e \in AnsweringEnvs}
    \cup {[e EXCEPT !.rerank_raises = TRUE] : e \in AnsweringEnvs}
    \cup UNION {{[e EXCEPT !.rerank_kind = kind, !.top_k = k, !.set_raises = sr] :
                    kind \in {"not_loaded", "predict_raised"}, k \in TopKs,
                    sr \in BOOLEAN} : e \in AnsweringEnvs}
    \cup UNION {{[e EXCEPT !.rerank_kind = "scored", !.scores = sc, !.top_k = k,
                           !.set_raises = sr] :
                    sc \in [1..(Len(e.vector_results) + Len(e.bm25_results)) -> RerankScores],
                    k \in TopKs, sr \in BOOLEAN} : e \in AnsweringEnvs}

NotCalled == [state |-> "not_called", hits |-> <<>>]

Raised == [state |-> "raised", hits |-> <<>>]

Returned(hits) == [state |-> "returned", hits |-> hits]

\* lines 316-340: the sub-searches run one after the other inside the try
SubSearches(q, env) ==
    LET vector == IF env.vector_raises THEN Raised
                  ELSE Returned(FormatVector(env.vector_results))
        bm25 == IF vector.state = "raised" THEN NotCalled
                ELSE IF env.bm25_raises THEN Raised
                ELSE Returned(env.bm25_results)
        found == SearchByQuery(q)
        kg == IF bm25.state # "returned" THEN NotCalled
              ELSE IF env.traversal_raises \/ found.raised THEN Raised
              ELSE Returned(found.hits)
    IN  [vector |-> vector, bm25 |-> bm25, kg |-> kg]

\* lines 315-373: what the try block computes, or that it raised, and the
\* calls it made
SearchAttempt(q, search_w, env) ==
    LET subs == SubSearches(q, env)
        called == <<"embed_query", "vector_store.search">>
                  \o (IF subs.bm25.state # "not_called" THEN <<"bm25.search">> ELSE <<>>)
                  \o (IF subs.kg.state # "not_called" THEN <<"graph.search_by_query">>
                      ELSE <<>>)
        all_returned == \A f \in {"vector", "bm25", "kg"} : subs[f].state = "returned"
        any_hits == \E f \in {"vector", "bm25", "kg"} : subs[f].hits # <<>>
    IN  IF ~all_returned
        THEN [raised |-> TRUE, returns |-> FALSE, value |-> <<>>, subs |-> subs,
              called |-> called]
        ELSE IF ~any_hits
        THEN [raised |-> FALSE, returns |-> FALSE, value |-> <<>>, subs |-> subs,
              called |-> called]
        ELSE IF env.fuse_raises
        THEN [raised |-> TRUE, returns |-> FALSE, value |-> <<>>, subs |-> subs,
              called |-> called \o <<"fuse">>]
        ELSE LET fused_results ==
                     Fuse(<<subs.vector.hits, subs.bm25.hits, subs.kg.hits>>,
                          SomeArg(search_w), SomeArg(METHOD_NAMES))
             IN  IF fused_results = <<>>
                 THEN [raised |-> FALSE, returns |-> FALSE, value |-> <<>>, subs |-> subs,
                       called |-> called \o <<"fuse">>]
                 ELSE IF env.rerank_raises
                 THEN [raised |-> TRUE, returns |-> FALSE, value |-> <<>>, subs |-> subs,
                       called |-> called \o <<"fuse", "rerank">>]
                 ELSE LET reranked_results ==
                              Rerank(Take(fused_results, 20),
                                     [kind |-> env.rerank_kind, scores |-> env.scores],
                                     env.top_k)
                          chunks == [i \in DOMAIN reranked_results |->
                                        ContextChunk(reranked_results[i])]
                      IN  IF env.set_raises
                          THEN [raised |-> TRUE, returns |-> FALSE, value |-> <<>>,
                                subs |-> subs,
                                called |-> called \o <<"fuse", "rerank", "cache.set">>]
                          ELSE [raised |-> FALSE, returns |-> TRUE, value |-> chunks,
                                subs |-> subs,
                                called |-> called \o <<"fuse", "rerank", "cache.set">>]

RetrievalReturned(value) == [outcome |-> "returned", value |-> value]

RetrievalRaised == [outcome |-> "raised", value |-> <<>>]

NoRetrieval == [outcome |-> "none", value |-> <<>>]

\* faulty variant: an error of the try block leaves _retrieve_rag_context
SearchBlockResult_Propagates(attempt) ==
    IF attempt.raised THEN RetrievalRaised ELSE RetrievalReturned(attempt.value)

\* lines 373-378: return context_chunks inside the try; an exception is
\* logged and the function returns []
SearchBlockResult(attempt) ==
    IF attempt.returns THEN RetrievalReturned(attempt.value) ELSE RetrievalReturned(<<>>)

NoSubSearches == [vector |-> NotCalled, bm25 |-> NotCalled, kg |-> NotCalled]

ChatQueries ==
    {"Hello there", "ok", "ok thanks", "compare alpha beta", "what is alpha",
     "explain alpha beta gamma delta"}

ChatInit ==
    /\ chat_query \in ChatQueries
    /\ use_rag \in BOOLEAN
    /\ cpc = "route"
    /\ route_info = NoRoute
    /\ context_chunks = <<>>
    /\ search_weights = DEFAULT_SEARCH_WEIGHTS
    /\ search_query = None
    /\ transformed = NoTransform
    /\ retrieval = NoRetrieval
    /\ sub_search = NoSubSearches
    /\ events = <<>>
    /\ calls = <<>>

ChatIdle ==
    /\ chat_query = None
    /\ use_rag = FALSE
    /\ cpc = "idle"
    /\ route_info = NoRoute
    /\ context_chunks = <<>>
    /\ search_weights = DEFAULT_SEARCH_WEIGHTS
    /\ search_query = None
    /\ transformed = NoTransform
    /\ retrieval = NoRetrieval
    /\ sub_search = NoSubSearches
    /\ events = <<>>
    /\ calls = <<>>

\* lines 99-103: route, route_metadata = router.route_query(query)
ChatRoute ==
    /\ cpc = "route"
    /\ route_info' = RouteQuery(chat_query)
    /\ calls' = Append(calls, "route_query")
    /\ cpc' = IF DictGet(route_info'.metadata, "skip_rag", FALSE) THEN "quick" ELSE "rag"
    /\ UNCHANGED <<chat_query, use_rag, context_chunks, search_weights, search_query,
                   retrieval, sub_search, events>>
    /\ UNCHANGED transformed
    /\ UNCHANGED notChatVars

\* lines 107-113: the templated reply and the done signal, then return
ChatQuickResponse ==
    /\ cpc = "quick"
    /\ LET quick_response == FormatQuickResponse(route_info.route, chat_query)
       IN  IF ~Falsy(quick_response)
           THEN /\ events' = events \o <<ContentEvent(quick_response), DoneEvent>>
                /\ cpc' = "finished"
           ELSE /\ events' = events
                /\ cpc' = "rag"
    /\ calls' = Append(calls, "format_quick_response")
    /\ UNCHANGED <<chat_query, use_rag, route_info, context_chunks, search_weights,
                   search_query, retrieval, sub_search>>
    /\ UNCHANGED transformed
    /\ UNCHANGED notChatVars

\* line 118: if use_rag
ChatBeginRetrieval ==
    /\ cpc = "rag"
    /\ cpc' = IF use_rag THEN "cache" ELSE "compress"
    /\ UNCHANGED <<chat_query, use_rag, route_info, context_chunks, search_weights,
                   search_query, retrieval, sub_search, events, calls>>
    /\ UNCHANGED transformed
    /\ UNCHANGED notChatVars

\* lines 231-237: the cache lookup stands outside every try of
\* _retrieve_rag_context; an exception leaves the function and is caught at
\* lines 128-129, context_chunks staying []
RetrieveCacheCheck ==
    /\ cpc = "cache"
    /\ calls' = Append(calls, "cache.get")
    /\ \/ /\ retrieval' = RetrievalRaised
          /\ context_chunks' = <<>>
          /\ cpc' = "compress"
       \/ /\ retrieval' = RetrievalReturned(CachedContext)
          /\ context_chunks' = CachedContext
          /\ cpc' = "compress"
       \/ /\ retrieval' = retrieval
          /\ context_chunks' = context_chunks
          /\ cpc' = IF DictGet(route_info.metadata, "use_agent", FALSE)
                    THEN "agent" ELSE "transform"
    /\ UNCHANGED <<chat_query, use_rag, route_info, search_weights, search_query,
                   sub_search, events>>
    /\ UNCHANGED transformed
    /\ UNCHANGED notChatVars

\* lines 242-251: the research agent; its chunks are cached and returned,
\* an exception (of the agent or of cache.set) is logged
RetrieveAgent ==
    /\ cpc = "agent"
    /\ \E agent_raises \in BOOLEAN, chunks \in AgentChunks, set_raises \in BOOLEAN :
         IF agent_raises \/ chunks = <<>>
         THEN /\ calls' = Append(calls, "agent.research")
              /\ UNCHANGED <<retrieval, context_chunks>>
              /\ cpc' = "transform"
         ELSE IF set_raises
         THEN /\ calls' = calls \o <<"agent.research", "cache.set">>
              /\ UNCHANGED <<retrieval, context_chunks>>
              /\ cpc' = "transform"
         ELSE /\ calls' = calls \o <<"agent.research", "cache.set">>
              /\ retrieval' = RetrievalReturned(chunks)
              /\ context_chunks' = chunks
              /\ cpc' = "compress"
    /\ UNCHANGED <<chat_query, use_rag, route_info, search_weights, search_query,
                   sub_search, events>>
    /\ UNCHANGED transformed
    /\ UNCHANGED notChatVars

\* lines 256-308: the query analysis gives the weights; HyDE, unless the
\* route skips it, gives the text searched and its critique the weights; each
\* of the three calls answers its own failure with a fallback value; an
\* exception (here of get_query_transform_service) is logged and what was
\* assigned before it stays
RetrieveTransform ==
    /\ cpc = "transform"
    /\ LET use_hyde == ~DictGet(route_info.metadata, "skip_hyde", FALSE)
       IN  \E service_raises \in BOOLEAN, query_type \in AnalysisReplies,
              passage \in {HYDE_DOC, LLMFailure}, reply \in CritiqueReplies :
             LET analysis == AnalyzeQuery(query_type)
                 analysed == DictGet(analysis, "weights", [none |-> TRUE])
                 hyde_doc == GenerateHydeDoc(chat_query, passage)
                 critique == CritiqueHyde(reply)
                 adjusted_weights_dict == AdjustWeights(analysed, critique)
             IN  IF service_raises
                 THEN /\ search_weights' = DEFAULT_SEARCH_WEIGHTS
                      /\ search_query' = chat_query
                      /\ transformed' = [failed |-> {"service"}]
                      /\ calls' = calls
                 ELSE IF ~use_hyde
                 THEN /\ search_weights' = WeightList(analysed)
                      /\ search_query' = chat_query
                      /\ transformed' =
                           [failed |-> IF query_type = LLMFailure THEN {"analyze"} ELSE {},
                            analysis |-> analysed]
                      /\ calls' = Append(calls, "analyze_query")
                 ELSE /\ search_weights' = WeightList(adjusted_weights_dict)
                      /\ search_query' = HedgedQuery(chat_query, hyde_doc, critique)
                      /\ transformed' =
                           [failed |-> (IF query_type = LLMFailure THEN {"analyze"} ELSE {})
                                       \cup (IF passage = LLMFailure THEN {"hyde"} ELSE {})
                                       \cup (IF reply = [failure |-> TRUE]
                                             THEN {"critique"} ELSE {}),
                            analysis |-> analysed,
                            hyde_doc |-> hyde_doc,
                            critique |-> critique]
                      /\ calls' = calls \o <<"analyze_query", "generate_hyde_doc",
                                             "critique_hyde">>
    /\ cpc' = "search"
    /\ UNCHANGED <<chat_query, use_rag, route_info, context_chunks, retrieval,
                   sub_search, events>>
    /\ UNCHANGED notChatVars

\* lines 315-378: the three sub-searches, the fusion, the reranking and the
\* cache write share one try
RetrieveSearch ==
    /\ cpc = "search"
    /\ \E env \in SearchEnvs :
         LET attempt == SearchAttempt(chat_query, search_weights, env)
             result == SearchBlockResult(attempt)
         IN  /\ sub_search' = attempt.subs
             /\ calls' = calls \o attempt.called
             /\ retrieval' = result
             /\ context_chunks' = IF result.outcome = "returned" THEN result.value
                                  ELSE <<>>
    /\ cpc' = "compress"
    /\ UNCHANGED <<chat_query, use_rag, route_info, search_weights, search_query, events>>
    /\ UNCHANGED transformed
    /\ UNCHANGED notChatVars

\* lines 134-148: the context is compressed, or formatted in full when the
\* compressor fails
ChatCompress ==
    /\ cpc = "compress"
    /\ calls' = IF context_chunks # <<>> THEN Append(calls, "compress") ELSE calls
    /\ cpc' = "llm"
    /\ UNCHANGED <<chat_query, use_rag, route_info, context_chunks, search_weights,
                   search_query, retrieval, sub_search, events>>
    /\ UNCHANGED transformed
    /\ UNCHANGED notChatVars

\* lines 189-221: the completion is requested and streamed, then the done
\* signal; an exception becomes an error event
ChatLLM ==
    /\ cpc = "llm"
    /\ calls' = Append(calls, "chat.completions.create")
    /\ \/ events' = events \o <<ContentEvent(LLM_TEXT), DoneEvent>>
       \/ events' = events \o <<DoneEvent>>
       \/ events' = events \o <<ErrorEvent>>
       \/ events' = events \o <<ContentEvent(LLM_TEXT), ErrorEvent>>
    /\ cpc' = "finished"
    /\ UNCHANGED <<chat_query, use_rag, route_info, context_chunks, search_weights,
                   search_query, retrieval, sub_search>>
    /\ UNCHANGED transformed
    /\ UNCHANGED notChatVars

ChatNext ==
    \/ ChatRoute \/ ChatQuickResponse \/ ChatBeginRetrieval
    \/ RetrieveCacheCheck \/ RetrieveAgent \/ RetrieveTransform \/ RetrieveSearch
    \/ ChatCompress \/ ChatLLM

(***************************************************************************)
(* ProgressTracker: the progress records of the document jobs.             *)
(***************************************************************************)
\* ProcessingStage, in the order of its members
ProcessingStage ==
    <<"uploading", "parsing", "chunking", "embedding", "vector_storing", "bm25_indexing",
      "entity_extraction", "graph_building", "completed", "failed">>

FileIds == {"f1", "f2"}

\* total_stages: int = 8
DEFAULT_TOTAL_STAGES == 8

NoNum == [given |-> FALSE, v |-> 0]

SomeNum(n) == [given |-> TRUE, v |-> n]

\* the stage_num arguments tried
StageNums == {NoNum, SomeNum(3), SomeNum(DEFAULT_TOTAL_STAGES + 1), SomeNum(-1)}

\* int((stage_num / total_stages) * 100); exact for total_stages = 8, whose
\* quotients are binary fractions; int() cuts towards zero
PercentOf(stage_num, total_stages) ==
    IF stage_num >= 0 THEN (stage_num * 100) \div total_stages
    ELSE -(((-stage_num) * 100) \div total_stages)

\* a key that is not in the record yet, where the key holds a number
Absent == -1

NoDetails == [substage |-> None, substage_percent |-> Absent, note |-> None]

NoRecord ==
    [present |-> FALSE, stage |-> None, progress |-> 0, total_stages |-> 0,
     current_stage_num |-> 0, details |-> NoDetails, started_at |-> 0, updated_at |-> 0,
     error |-> None, completed_at |-> Absent, failed_at |-> Absent, summary |-> None]

\* the record start_processing stores
NewRecord(total_stages, t) ==
    [present |-> TRUE, stage |-> "uploading", progress |-> 0, total_stages |-> total_stages,
     current_stage_num |-> 0, details |-> NoDetails, started_at |-> t, updated_at |-> t,
     error |-> None, completed_at |-> Absent, failed_at |-> Absent, summary |-> None]

\* progress_info["stage"] = stage
SetStage(record, stage) == [record EXCEPT !.stage = stage]

ProgressInit ==
    /\ progress_data = [f \in FileIds |-> NoRecord]
    /\ scheduled = [f \in FileIds |-> 0]
    /\ pcalls = 0
    /\ last_call = [op |-> "none", file_id |-> None]

ProgressIdle ==
    /\ progress_data = <<>>
    /\ scheduled = <<>>
    /\ pcalls = -1
    /\ last_call = [op |-> "none", file_id |-> None]

\* what every tracker call does to the history
Calling(op, file_id) ==
    /\ pcalls >= 0
    /\ pcalls < MaxCalls
    /\ pcalls' = pcalls + 1
    /\ last_call' = [op |-> op, file_id |-> file_id]

\* asyncio.create_task(self._broadcast_update(file_id))
Schedule(file_id) == scheduled' = [scheduled EXCEPT ![file_id] = @ + 1]

\* start_processing(file_id, filename, total_stages=8)
StartProcessing ==
    \E file_id \in FileIds :
        /\ Calling("start_processing", file_id)
        /\ progress_data' =
              [progress_data EXCEPT ![file_id] = NewRecord(DEFAULT_TOTAL_STAGES, pcalls')]
        /\ UNCHANGED scheduled
        /\ UNCHANGED notProgressVars

\* update_stage(file_id, stage, details=None, stage_num=None)
UpdateStageCall(file_id, stage, stage_num, note) ==
        /\ Calling("update_stage", file_id)
        /\ IF ~progress_data[file_id].present
           THEN UNCHANGED <<progress_data, scheduled>>
           ELSE LET r0 == SetStage(progress_data[file_id], stage)
                    r1 == [r0 EXCEPT !.updated_at = pcalls']
                    r2 == IF stage_num.given
                          THEN [r1 EXCEPT !.current_stage_num = stage_num.v,
                                          !.progress = PercentOf(stage_num.v, r1.total_stages)]
                          ELSE r1
                    r3 == IF note # None THEN [r2 EXCEPT !.details.note = note] ELSE r2
                IN  /\ progress_data' = [progress_data EXCEPT ![file_id] = r3]
                    /\ Schedule(file_id)
        /\ UNCHANGED notProgressVars

UpdateStage ==
    \E file_id \in FileIds, stage \in Range(ProcessingStage), stage_num \in StageNums,
       note \in {None, "note"} :
        UpdateStageCall(file_id, stage, stage_num, note)

\* update_substage(file_id, message, current=None, total=None)
UpdateSubstage ==
    \E file_id \in FileIds, counts \in {<<NoNum, NoNum>>, <<SomeNum(1), SomeNum(0)>>,
                                         <<SomeNum(1), SomeNum(2)>>} :
        /\ Calling("update_substage", file_id)
        /\ IF ~progress_data[file_id].present
           THEN UNCHANGED <<progress_data, scheduled>>
           ELSE LET r0 == [progress_data[file_id] EXCEPT !.details.substage = "batch"]
                    r1 == IF counts[1].given /\ counts[2].given
                          THEN [r0 EXCEPT !.details.substage_percent =
                                   IF counts[2].v > 0
                                   THEN PercentOf(counts[1].v, counts[2].v) ELSE 0]
                          ELSE r0
                IN  /\ progress_data' =
                          [progress_data EXCEPT ![file_id] = [r1 EXCEPT !.updated_at = pcalls']]
                    /\ Schedule(file_id)
        /\ UNCHANGED notProgressVars

\* mark_completed(file_id, summary=None)
MarkCompleted ==
    \E file_id \in FileIds, summary \in {None, "summary"} :
        /\ Calling("mark_completed", file_id)
        /\ IF ~progress_data[file_id].present
           THEN UNCHANGED <<progress_data, scheduled>>
           ELSE LET old == progress_data[file_id]
                    r0 == [old EXCEPT !.stage = "completed",
                                      !.progress = 100,
                                      !.current_stage_num = old.total_stages,
                                      !.completed_at = pcalls']
                    r1 == IF summary # None THEN [r0 EXCEPT !.summary = summary] ELSE r0
                IN  /\ progress_data' = [progress_data EXCEPT ![file_id] = r1]
                    /\ Schedule(file_id)
        /\ UNCHANGED notProgressVars

\* faulty variant: the call does not look whether the job was started
MarkFailed_Unguarded ==
    \E file_id \in FileIds :
        /\ Calling("mark_failed", file_id)
        /\ progress_data' =
              [progress_data EXCEPT ![file_id] =
                  [@ EXCEPT !.stage = "failed", !.error = "error", !.failed_at = pcalls']]
        /\ Schedule(file_id)
        /\ UNCHANGED notProgressVars

\* mark_failed(file_id, error)
MarkFailed ==
    \E file_id \in FileIds :
        /\ Calling("mark_failed", file_id)
        /\ IF ~progress_data[file_id].present
           THEN UNCHANGED <<progress_data, scheduled>>
           ELSE /\ progress_data' =
                      [progress_data EXCEPT ![file_id] =
                          [@ EXCEPT !.stage = "failed", !.error = "error",
                                    !.failed_at = pcalls']]
                /\ Schedule(file_id)
        /\ UNCHANGED notProgressVars

ProgressNext ==
    StartProcessing \/ UpdateStage \/ UpdateSubstage \/ MarkCompleted \/ MarkFailed

(***************************************************************************)
(* ProgressTracker: register_connection, unregister_connection and the     *)
(* _broadcast_update tasks.  A task runs from one await to the next in one *)
(* step; between two steps of a task the other coroutines may run.         *)
(***************************************************************************)
WebSockets == {"w1", "w2", "w3"}

\* the job every websocket asks for: /ws/progress/{file_id}
BroadcastFile == "f1"

\* no entry for the file_id; gen tells the set objects of a file apart
NoConnections == [present |-> FALSE, members |-> {}, gen |-> 0]

PendingTask ==
    [pc |-> "pending", error |-> None, gen |-> 0, si_used |-> 0, initial |-> {},
     visited |-> {}, cur |-> None, dead |-> {}, received |-> {}, stayed |-> {},
     snapshot |-> None, stamp |-> 0]

\* the set object a task iterates: the file's entry while it is the same
\* object, otherwise the object the entry held when it was deleted, which
\* was empty and stays so
IteratedSet(task, conn) ==
    IF conn.present /\ conn.gen = task.gen THEN conn.members ELSE {}

\* the for statement asks the set iterator for the next websocket: the
\* iterator raises RuntimeError when the set's size is not the one it saw
\* when it was created; websockets added since then may be passed over
SizeChanged(task, conn) == Cardinality(IteratedSet(task, conn)) # task.si_used

MustVisit(task, conn) == (IteratedSet(task, conn) \cap task.initial) \ task.visited

MayJoin(task, conn) == (IteratedSet(task, conn) \ task.initial) \ task.visited

\* for websocket in dead_connections: self.connections[file_id].discard(websocket)
DeadToDiscard(task) == task.dead

\* what a task does from the end of one send to the next await or to its
\* end: [task, discarded], the task after the step and the websockets its
\* cleanup took out of the file's set
TaskSteps(task, conn) ==
    IF SizeChanged(task, conn)
    THEN {[task |-> [task EXCEPT !.pc = "failed", !.error = "RuntimeError", !.cur = None],
           discarded |-> {}]}
    ELSE {[task |-> [task EXCEPT !.pc = "sending", !.cur = ws, !.visited = @ \cup {ws}],
           discarded |-> {}] : ws \in MustVisit(task, conn) \cup MayJoin(task, conn)}
         \cup
         (IF MustVisit(task, conn) # {} THEN {}
          ELSE IF DeadToDiscard(task) = {}
          THEN {[task |-> [task EXCEPT !.pc = "done", !.cur = None], discarded |-> {}]}
          ELSE IF ~conn.present
          THEN {[task |-> [task EXCEPT !.pc = "failed", !.error = "KeyError", !.cur = None],
                 discarded |-> {}]}
          ELSE {[task |-> [task EXCEPT !.pc = "done", !.cur = None,
                                       !.stayed = @ \ DeadToDiscard(task)],
                 discarded |-> DeadToDiscard(task)]})

\* a websocket leaves the file's set: the running broadcasts note it
Departed(ts, gone, except) ==
    [t \in DOMAIN ts |->
        IF t # except /\ ts[t].pc = "sending"
        THEN [ts[t] EXCEPT !.stayed = @ \ gone] ELSE ts[t]]

BroadcastInit ==
    /\ \E registered \in SUBSET WebSockets :
          /\ ws_state = [w \in WebSockets |->
                            IF w \in registered THEN "registered" ELSE "new"]
          /\ connections =
                [f \in FileIds |->
                    IF f = BroadcastFile /\ registered # {}
                    THEN [present |-> TRUE, members |-> registered, gen |-> 1]
                    ELSE NoConnections]
    /\ tasks = [t \in 1..MaxBroadcasts |-> PendingTask]
    /\ last_sent = [w \in WebSockets |-> 0]

BroadcastIdle ==
    /\ connections = <<>>
    /\ ws_state = <<>>
    /\ tasks = <<>>
    /\ last_sent = <<>>

\* the job whose broadcasts are followed: started, and updated once, which
\* scheduled the first broadcast
JobInit ==
    /\ progress_data =
          [f \in FileIds |->
              IF f = BroadcastFile
              THEN [NewRecord(DEFAULT_TOTAL_STAGES, 1) EXCEPT
                       !.stage = "parsing", !.updated_at = 2]
              ELSE NoRecord]
    /\ scheduled = [f \in FileIds |-> IF f = BroadcastFile THEN 1 ELSE 0]
    /\ pcalls = 2
    /\ last_call = [op |-> "update_stage", file_id |-> BroadcastFile]

\* register_connection(file_id, websocket): no await inside; the endpoint
\* goes on, without an await in between, to pass the job's record as it
\* stands to the websocket's send_json (documents.py:120-125)
RegisterConnectionFor(file_id) ==
    \E w \in WebSockets :
        /\ ws_state[w] = "new"
        /\ ws_state' = [ws_state EXCEPT ![w] = "registered"]
        /\ last_sent' = IF progress_data[file_id].present
                        THEN [last_sent EXCEPT ![w] = progress_data[file_id].updated_at]
                        ELSE last_sent
        /\ LET conn == connections[file_id]
               entry == IF conn.present THEN conn
                        ELSE [present |-> TRUE, members |-> {}, gen |-> conn.gen + 1]
           IN  connections' =
                  [connections EXCEPT ![file_id] =
                      [entry EXCEPT !.members = @ \cup {w}]]
        /\ UNCHANGED tasks
        /\ UNCHANGED notBroadcastVars

RegisterConnection == RegisterConnectionFor(BroadcastFile)

\* unregister_connection(file_id, websocket), from the finally of the
\* endpoint: discard, and the entry is deleted when the set is empty
\* the endpoint passes the file_id it registered with
UnregisterConnectionFor(file_id) ==
    \E w \in WebSockets :
        /\ ws_state[w] = "registered"
        /\ \A other \in FileIds \ {file_id} : w \notin connections[other].members
        /\ ws_state' = [ws_state EXCEPT ![w] = "closed"]
        /\ LET conn == connections[file_id]
               members == conn.members \ {w}
           IN  connections' =
                  IF ~conn.present THEN connections
                  ELSE IF members = {}
                  THEN [connections EXCEPT ![file_id] =
                           [present |-> FALSE, members |-> {}, gen |-> conn.gen]]
                  ELSE [connections EXCEPT ![file_id].members = members]
        /\ tasks' = Departed(tasks, {w}, 0)
        /\ UNCHANGED last_sent
        /\ UNCHANGED notBroadcastVars

UnregisterConnection == UnregisterConnectionFor(BroadcastFile)

\* one step of a task and what it does to the file's set
TaskStep(t, before) ==
    \E outcome \in TaskSteps(before, connections[BroadcastFile]) :
        /\ tasks' = [Departed(tasks, outcome.discarded, t) EXCEPT ![t] = outcome.task]
        /\ connections' =
              [connections EXCEPT ![BroadcastFile].members = @ \ outcome.discarded]
        /\ last_sent' = IF outcome.task.pc = "sending"
                        THEN [last_sent EXCEPT ![outcome.task.cur] = outcome.task.stamp]
                        ELSE last_sent

\* _broadcast_update(file_id) starts: without an entry or without a record
\* it returns; otherwise the record is read and the loop entered
BroadcastStart ==
    \E t \in DOMAIN tasks :
        /\ tasks[t].pc = "pending"
        /\ \A u \in 1..(t - 1) : tasks[u].pc # "pending"
        /\ t <= scheduled[BroadcastFile]
        /\ LET conn == connections[BroadcastFile]
               record == progress_data[BroadcastFile]
           IN  IF ~conn.present \/ ~record.present
               THEN /\ tasks' = [tasks EXCEPT ![t].pc = "done"]
                    /\ UNCHANGED <<connections, last_sent>>
               ELSE TaskStep(t, [tasks[t] EXCEPT
                                    !.gen = conn.gen,
                                    !.si_used = Cardinality(conn.members),
                                    !.initial = conn.members,
                                    !.stayed = conn.members,
                                    !.snapshot = record.stage,
                                    !.stamp = record.updated_at])
        /\ UNCHANGED ws_state
        /\ UNCHANGED notBroadcastVars

\* await websocket.send_json(progress) returns or raises; the task goes on
\* to the next websocket or to the cleanup
BroadcastSendDone ==
    \E t \in DOMAIN tasks, delivered \in BOOLEAN :
        /\ tasks[t].pc = "sending"
        /\ TaskStep(t, IF delivered
                       THEN [tasks[t] EXCEPT !.received = @ \cup {tasks[t].cur}]
                       ELSE [tasks[t] EXCEPT !.dead = @ \cup {tasks[t].cur}])
        /\ UNCHANGED ws_state
        /\ UNCHANGED notBroadcastVars

\* the pipeline's next update_stage for the job, while broadcasts of the
\* earlier ones may be under way
PipelineUpdate ==
    /\ scheduled[BroadcastFile] < MaxBroadcasts
    /\ UpdateStageCall(BroadcastFile, "chunking", SomeNum(2), None)

BroadcastNext ==
    \/ RegisterConnection \/ UnregisterConnection \/ BroadcastStart \/ BroadcastSendDone
    \/ PipelineUpdate

\* the files the websockets asked for when the jobs begin: one subscriber
\* each, the third websocket not connected yet
FirstSubscribers == [w1 |-> "f1", w2 |-> "f2", w3 |-> None]

\* the tracker with the jobs and the subscribers of several files
TrackerInit ==
    /\ ProgressInit
    /\ \E file_of \in {FirstSubscribers} :
          /\ ws_state = [w \in WebSockets |->
                            IF file_of[w] = None THEN "new" ELSE "registered"]
          /\ connections =
                [f \in FileIds |->
                    LET members == {w \in WebSockets : file_of[w] = f}
                    IN  IF members = {} THEN NoConnections
                        ELSE [present |-> TRUE, members |-> members, gen |-> 1]]
    /\ tasks = [t \in 1..MaxBroadcasts |-> PendingTask]
    /\ last_sent = [w \in WebSockets |-> 0]

RegisterAny == \E file_id \in FileIds : RegisterConnectionFor(file_id)

UnregisterAny == \E file_id \in FileIds : UnregisterConnectionFor(file_id)

TrackerNext == ProgressNext \/ RegisterAny \/ UnregisterAny

(***************************************************************************)
(* Knowledge Store: GraphService over the graph database.  A node is a  *)
(* record of kg_nodes and is known by its place there, as the database     *)
(* knows it by an identity of its own; a relationship joins two places.    *)
(* Only the properties the merge rules read or write are kept: name,       *)
(* file_id and the timestamps are written and never read.                  *)
(***************************************************************************)
Writers == {"p1", "p2"}

EntityIds == {"e1", "e2"}

\* an entity without a type gets the label 'Unknown'
NoType == None

Descriptions == {None, "a", "bb", "cc"}

ChunkIds == {"c1", "c2"}

\* confidences in tenths; Absent when the relationship carries none
RelConfidences == {Absent, 5, 9}

\* the labels setup_neo4j_indices.py makes a uniqueness constraint for
ENTITY_TYPES == {"PERSON"}

Entities ==
    [id : {"e1"}, type : {"PERSON"}, description : Descriptions]
    \cup [id : {"e1"}, type : {NoType}, description : {"a"}]
    \cup [id : {"e2"}, type : {"PERSON"}, description : {"a"}]

Relationships ==
    [from_id : {"e1"}, to_id : {"e2"}, type : {"USES"}, confidence : RelConfidences]

ExtractionResults ==
    [entities : UNION {[1..n -> Entities] : n \in 0..MaxEntities},
     relationships : UNION {[1..n -> Relationships] : n \in 0..MaxRelationships},
     chunk_id : ChunkIds]

\* entity.get('type', 'Unknown')
NodeTypeOf(entity) == IF entity.type = NoType THEN "Unknown" ELSE entity.type

\* rel.get('type', 'RELATED_TO')
RelTypeOf(rel) == IF rel.type = NoType THEN "RELATED_TO" ELSE rel.type

\* the keys of a defaultdict, in the order in which they were first used
RECURSIVE KeysInOrder(_, _, _)
KeysInOrder(rows, KeyOf(_), seen) ==
    IF rows = <<>> THEN <<>>
    ELSE IF KeyOf(Head(rows)) \in seen THEN KeysInOrder(Tail(rows), KeyOf, seen)
    ELSE <<KeyOf(Head(rows))>>
         \o KeysInOrder(Tail(rows), KeyOf, seen \cup {KeyOf(Head(rows))})

\* nodes_by_type[type], each entity with the chunk_id of the result
NodeBatch(er, node_type) ==
    LET mine == SelectSeq(er.entities, LAMBDA e : NodeTypeOf(e) = node_type)
    IN  [i \in DOMAIN mine |->
            [id |-> mine[i].id, description |-> mine[i].description,
             chunk_id |-> er.chunk_id]]

\* rels_by_type[type]
RelBatch(er, rel_type) ==
    SelectSeq(er.relationships, LAMBDA r : RelTypeOf(r) = rel_type)

\* size(toString(row.description)) > size(toString(n.description)): a
\* comparison with null is null, and CASE WHEN null takes the ELSE branch
LongerThan(new, old) ==
    IF new = None \/ old = None THEN FALSE ELSE Len(new) > Len(old)

\* ON MATCH SET n.description = CASE ... END
MergedDescription(new, old) == IF LongerThan(new, old) THEN new ELSE old

InSeq(x, s) == \E i \in DOMAIN s : s[i] = x

\* ON MATCH SET n.source_chunks = CASE ... END
MergedChunks(chunk_id, source_chunks) ==
    IF ~InSeq(chunk_id, source_chunks) THEN Append(source_chunks, chunk_id)
    ELSE source_chunks

\* the nodes MERGE (n:`type` {id: row.id}) binds
Matching(nodes, node_type, id) ==
    {i \in DOMAIN nodes : nodes[i].label = node_type /\ nodes[i].id = id}

\* one row of the UNWIND of _create_nodes_tx; unseen: the transaction found
\* no such node when it looked and creates one
MergeNode(nodes, node_type, row, unseen) ==
    IF unseen \/ Matching(nodes, node_type, row.id) = {}
    THEN Append(nodes, [label |-> node_type, id |-> row.id,
                        description |-> row.description,
                        source_chunks |-> <<row.chunk_id>>])
    ELSE [i \in DOMAIN nodes |->
            IF i \in Matching(nodes, node_type, row.id)
            THEN [nodes[i] EXCEPT
                    !.description = MergedDescription(row.description, @),
                    !.source_chunks = MergedChunks(row.chunk_id, @)]
            ELSE nodes[i]]

\* _create_nodes_tx(tx, node_type, nodes): the rows one after the other;
\* blind holds the ids the transaction looked for before another one
\* committed them
RECURSIVE CreateNodesTx(_, _, _, _)
CreateNodesTx(nodes, node_type, batch, blind) ==
    IF batch = <<>> THEN nodes
    ELSE CreateNodesTx(MergeNode(nodes, node_type, Head(batch), Head(batch).id \in blind),
                       node_type, Tail(batch), blind \ {Head(batch).id})

\* row.confidence > r.confidence, null when either is null
Greater(new, old) == IF new = Absent \/ old = Absent THEN FALSE ELSE new > old

\* ON MATCH SET r.confidence = CASE ... END
MergedConfidence(new, old) == IF Greater(new, old) THEN new ELSE old

\* MATCH (source {id: row.from_id}): every node with that id, of any label
Endpoints(nodes, id) == {i \in DOMAIN nodes : nodes[i].id = id}

\* one row of the UNWIND of _create_rels_tx: for every pair of endpoints
\* the relationship is merged; without a pair nothing happens
MergeRel(nodes, edges, rel_type, row) ==
    LET pairs == Endpoints(nodes, row.from_id) \X Endpoints(nodes, row.to_id)
        Joins(e, p) == e.from = p[1] /\ e.to = p[2] /\ e.type = rel_type
    IN  {IF \E p \in pairs : Joins(e, p)
         THEN [e EXCEPT !.confidence = MergedConfidence(row.confidence, @)]
         ELSE e : e \in edges}
        \cup
        {[from |-> p[1], to |-> p[2], type |-> rel_type, confidence |-> row.confidence] :
            p \in {q \in pairs : ~\E e \in edges : Joins(e, q)}}

\* _create_rels_tx(tx, rel_type, rels)
RECURSIVE CreateRelsTx(_, _, _, _)
CreateRelsTx(nodes, edges, rel_type, batch) ==
    IF batch = <<>> THEN edges
    ELSE CreateRelsTx(nodes, MergeRel(nodes, edges, rel_type, Head(batch)),
                      rel_type, Tail(batch))

\* for node_type, nodes in nodes_by_type.items(): execute_write(...)
RECURSIVE WriteNodes(_, _, _)
WriteNodes(nodes, er, types) ==
    IF types = <<>> THEN nodes
    ELSE WriteNodes(CreateNodesTx(nodes, Head(types), NodeBatch(er, Head(types)), {}),
                    er, Tail(types))

\* for rel_type, rels in rels_by_type.items(): execute_write(...)
RECURSIVE WriteRels(_, _, _, _)
WriteRels(nodes, edges, er, types) ==
    IF types = <<>> THEN edges
    ELSE WriteRels(nodes, CreateRelsTx(nodes, edges, Head(types), RelBatch(er, Head(types))),
                   er, Tail(types))

NodeTypesOf(er) == KeysInOrder(er.entities, NodeTypeOf, {})

RelTypesOf(er) == KeysInOrder(er.relationships, RelTypeOf, {})

\* add_extraction_result by a single caller: the node transactions, then
\* the relationship transactions
AddResult(kg, er) ==
    LET nodes == WriteNodes(kg.nodes, er, NodeTypesOf(er))
    IN  [nodes |-> nodes, edges |-> WriteRels(nodes, kg.edges, er, RelTypesOf(er))]

\* faulty variant: the nodes are deleted and their relationships left
Cleared_NodesOnly(kg) == [nodes |-> <<>>, edges |-> kg.edges]

\* MATCH (n) DETACH DELETE n
Cleared(kg) == [nodes |-> <<>>, edges |-> {}]

Graph == [nodes |-> kg_nodes, edges |-> kg_edges]

NoCall == [op |-> "none", er |-> [entities |-> <<>>, relationships |-> <<>>, chunk_id |-> "c1"]]

IdleWriter ==
    [pc |-> "idle", er |-> NoCall.er, node_types |-> <<>>, rel_types |-> <<>>, blind |-> {}]

KgInit ==
    /\ kg_nodes = <<>>
    /\ kg_edges = {}
    /\ kg_last = NoCall
    /\ kg_adds = 0
    /\ has_constraints \in BOOLEAN
    /\ writers = [w \in Writers |-> IdleWriter]

KgIdle ==
    /\ kg_nodes = <<>>
    /\ kg_edges = <<>>
    /\ kg_last = <<>>
    /\ kg_adds = 0
    /\ has_constraints = FALSE
    /\ writers = <<>>

\* add_extraction_result(extraction_result, file_id), nothing else running
AddExtractionResult ==
    \E er \in ExtractionResults :
        /\ kg_adds < MaxAdds
        /\ kg_adds' = kg_adds + 1
        /\ kg_last' = [op |-> "add", er |-> er]
        /\ kg_nodes' = AddResult(Graph, er).nodes
        /\ kg_edges' = AddResult(Graph, er).edges
        /\ UNCHANGED <<has_constraints, writers>>
        /\ UNCHANGED notKgVars

\* clear_all()
ClearAll ==
    /\ kg_nodes # <<>>
    /\ kg_nodes' = Cleared(Graph).nodes
    /\ kg_edges' = Cleared(Graph).edges
    /\ kg_last' = [NoCall EXCEPT !.op = "clear"]
    /\ UNCHANGED <<kg_adds, has_constraints, writers>>
    /\ UNCHANGED notKgVars

KgNext == AddExtractionResult \/ ClearAll

(***************************************************************************)
(* Two add_extraction_result calls at the same time.  Each transaction of  *)
(* a call is a step of its own.  A node transaction looks for its nodes    *)
(* and writes in two steps: what it matches it changes under the node's    *)
(* lock, reading the stored values again; what it did not find it          *)
(* creates, unless a uniqueness constraint on the label makes it find the  *)
(* node committed in between.                                              *)
(***************************************************************************)
\* the results the two calls are made with
ConcurrentResults ==
    {er \in ExtractionResults :
        /\ Len(er.entities) >= 1
        /\ er.entities[1].id = "e1" /\ er.entities[1].description \in {"a", "bb"}
        /\ Len(er.entities) = 2 => er.entities[2].id = "e2"
        /\ \A i \in DOMAIN er.relationships : er.relationships[i].confidence # Absent}

\* every call works on a chunk of its own
ChunkOf(w) == IF w = "p1" THEN "c1" ELSE "c2"

Constrained(node_type) == has_constraints /\ node_type \in ENTITY_TYPES

\* a call enters add_extraction_result
WriterBegin ==
    \E w \in Writers, er \in ConcurrentResults :
        /\ writers[w].pc = "idle"
        /\ er.chunk_id = ChunkOf(w)
        /\ w = "p2" => writers["p1"].pc # "idle"
        /\ writers' = [writers EXCEPT ![w] =
                          [pc |-> "match", er |-> er, node_types |-> NodeTypesOf(er),
                           rel_types |-> RelTypesOf(er), blind |-> {}]]
        /\ UNCHANGED <<kg_nodes, kg_edges, kg_last, kg_adds, has_constraints>>
        /\ UNCHANGED notKgVars

\* the node transaction of a call looks for the nodes of its batch
WriterMatch ==
    \E w \in Writers :
        /\ writers[w].pc = "match"
        /\ writers[w].node_types # <<>>
        /\ LET node_type == Head(writers[w].node_types)
               batch == NodeBatch(writers[w].er, node_type)
           IN  writers' = [writers EXCEPT
                  ![w].pc = "write",
                  ![w].blind =
                      IF Constrained(node_type) THEN {}
                      ELSE {batch[i].id : i \in {j \in DOMAIN batch :
                               Matching(kg_nodes, node_type, batch[j].id) = {}}}]
        /\ UNCHANGED <<kg_nodes, kg_edges, kg_last, kg_adds, has_constraints>>
        /\ UNCHANGED notKgVars

\* the node transaction writes and commits
WriterWrite ==
    \E w \in Writers :
        /\ writers[w].pc = "write"
        /\ LET node_type == Head(writers[w].node_types)
           IN  kg_nodes' = CreateNodesTx(kg_nodes, node_type,
                                         NodeBatch(writers[w].er, node_type),
                                         writers[w].blind)
        /\ writers' = [writers EXCEPT ![w].pc = "match", ![w].blind = {},
                                      ![w].node_types = Tail(@)]
        /\ UNCHANGED <<kg_edges, kg_last, kg_adds, has_constraints>>
        /\ UNCHANGED notKgVars

\* a relationship transaction of a call, or the end of the call: MERGE of
\* a relationship between bound nodes locks the nodes
WriterRels ==
    \E w \in Writers :
        /\ writers[w].pc = "match"
        /\ writers[w].node_types = <<>>
        /\ IF writers[w].rel_types = <<>>
           THEN /\ writers' = [writers EXCEPT ![w].pc = "done"]
                /\ UNCHANGED kg_edges
           ELSE /\ kg_edges' = CreateRelsTx(kg_nodes, kg_edges, Head(writers[w].rel_types),
                                   RelBatch(writers[w].er, Head(writers[w].rel_types)))
                /\ writers' = [writers EXCEPT ![w].rel_types = Tail(@)]
        /\ UNCHANGED <<kg_nodes, kg_last, kg_adds, has_constraints>>
        /\ UNCHANGED notKgVars

KgConcurrentNext == WriterBegin \/ WriterMatch \/ WriterWrite \/ WriterRels

(***************************************************************************)
(* QueryTransformService.adjust_weights on its own.                        *)
(***************************************************************************)

\* the confidences a critique may state: the band edges and both ends
CritiqueConfidences == {0, 39, 40, 50, 69, 70, 100}

\* the critiques handed to adjust_weights: each field present or missing
CritiqueResults ==
    LET confs == [confidence : CritiqueConfidences] \cup {[technical_accuracy |-> "ok"]}
        recs  == [recommendation : {"trust_low", "trust_medium", "trust_high"}]
                   \cup {[issues |-> <<>>]}
    IN  {c @@ r : c \in confs, r \in recs}

\* the weights handed to adjust_weights: a profile of the analysis
CurrentWeights == {WEIGHT_PROFILES[t] : t \in DOMAIN WEIGHT_PROFILES}

NoWeights == [none |-> TRUE]

TransformInit ==
    /\ given_weights \in CurrentWeights
    /\ given_critique \in CritiqueResults
    /\ tpc = "call"
    /\ adjusted = NoWeights

TransformIdle ==
    /\ given_weights = NoWeights
    /\ given_critique = NoWeights
    /\ tpc = "idle"
    /\ adjusted = NoWeights

\* adjust_weights(current_weights, critique_result)
CallAdjustWeights ==
    /\ tpc = "call"
    /\ adjusted' = AdjustWeights(given_weights, given_critique)
    /\ tpc' = "returned"
    /\ UNCHANGED <<given_weights, given_critique>>
    /\ UNCHANGED notTransformVars

TransformNext == CallAdjustWeights

(***************************************************************************)
(* _retrieve_rag_context call after call: the contexts it stores in the    *)
(* cache and serves from it.                                               *)
(***************************************************************************)
\* hashlib.md5(data_str.encode()).hexdigest(): one digest per text
Md5(data_str) == "md5(" \o data_str \o ")"

\* generate_key(prefix, data) for a str
GenerateKey(prefix, data) == prefix \o ":" \o Md5(data)

RagQueries == {"what is alpha", "explain beta"}

\* the file_ids argument: None, or the files the chat is restricted to
FileFilters == {NoneArg, SomeArg(<<"f1">>), SomeArg(<<"f2">>)}

\* the chunks indexed, one per file
IndexedChunks ==
    <<[content |-> "x", file_id |-> "f1", chunk_index |-> 0],
      [content |-> "y", file_id |-> "f2", chunk_index |-> 0]>>

\* vector_store.search(query_embedding, top_k=10, file_ids=file_ids): the
\* chunks of the files named, of every file without a filter
SearchFiltered(file_ids) ==
    SelectSeq(IndexedChunks,
              LAMBDA c : ~file_ids.given \/ \E i \in DOMAIN file_ids.v : file_ids.v[i] = c.file_id)

NoRagCall ==
    [query |-> None, file_ids |-> NoneArg, key |-> None, hit |-> FALSE, returned |-> <<>>]

RagInit ==
    /\ rag_calls = 0
    /\ rag_last = NoRagCall
    /\ rag_origin = <<>>

RagIdle ==
    /\ rag_calls = -1
    /\ rag_last = NoRagCall
    /\ rag_origin = <<>>

\* _retrieve_rag_context(query, file_ids): the context is looked up under
\* the key of the query; on a miss it is retrieved, with the vector search
\* filtered by file_ids, and stored under that key unless nothing was found
\* or the retrieval failed
RetrieveRagContext ==
    \E q \in RagQueries, file_ids \in FileFilters, fails \in BOOLEAN :
        LET cache_key == GenerateKey("rag_context", q)
            i == CacheIndex(cache, cache_key)
            hit == ENABLE_CACHE /\ i # 0 /\ IsFresh(cache[i], now)
            looked == IF ENABLE_CACHE THEN GetUnderLock(cache, cache_key, now).cache
                      ELSE cache
            retrieved == IF fails THEN <<>> ELSE SearchFiltered(file_ids)
        IN  /\ rag_calls >= 0
            /\ rag_calls < MaxRetrievals
            /\ rag_calls' = rag_calls + 1
            /\ IF hit
               THEN /\ cache' = looked
                    /\ rag_last' = [query |-> q, file_ids |-> file_ids, key |-> cache_key,
                                    hit |-> TRUE, returned |-> cache[i].value]
                    /\ UNCHANGED rag_origin
               ELSE IF retrieved # <<>>
               THEN /\ cache' = IF ENABLE_CACHE
                                THEN SetUnderLock(looked, cache_key, retrieved,
                                                  ExpiryFor(NoTtl, now))
                                ELSE looked
                    /\ rag_last' = [query |-> q, file_ids |-> file_ids, key |-> cache_key,
                                    hit |-> FALSE, returned |-> retrieved]
                    /\ rag_origin' = [k \in DOMAIN rag_origin \cup {cache_key} |->
                                         IF k = cache_key THEN file_ids ELSE rag_origin[k]]
               ELSE /\ cache' = looked
                    /\ rag_last' = [query |-> q, file_ids |-> file_ids, key |-> cache_key,
                                    hit |-> FALSE, returned |-> <<>>]
                    /\ UNCHANGED rag_origin
        /\ UNCHANGED <<MAX_CACHE_SIZE, now, lastGet, lastSet, fillersUsed, lock, thread>>
        /\ UNCHANGED <<fuseVars, researchVars, graphVars, routerVars, chatVars, progressVars,
                       broadcastVars, kgVars, transformVars>>

\* time passes between the calls
RagNext == RetrieveRagContext \/ Tick

(***************************************************************************)
(* Specifications: one component runs, the others stay idle.               *)
(***************************************************************************)
InitFuse == FuseInit /\ ResearchIdle /\ CacheIdle /\ GraphIdle /\ RouterIdle /\ ChatIdle /\ ProgressIdle /\ BroadcastIdle /\ KgIdle /\ TransformIdle /\ RagIdle

FuseNext == CallFuse

SpecFuse == InitFuse /\ [][FuseNext]_vars

InitResearch == FuseIdle /\ ResearchInit /\ CacheIdle /\ GraphIdle /\ RouterIdle /\ ChatIdle /\ ProgressIdle /\ BroadcastIdle /\ KgIdle /\ TransformIdle /\ RagIdle

SpecResearch == InitResearch /\ [][ResearchNext]_vars

\* research() runs to its end: every call it makes returns or raises
SpecResearchFair == SpecResearch /\ WF_vars(ResearchNext)

InitCache == FuseIdle /\ ResearchIdle /\ CacheInit /\ GraphIdle /\ RouterIdle /\ ChatIdle /\ ProgressIdle /\ BroadcastIdle /\ KgIdle /\ TransformIdle /\ RagIdle

SpecCache == InitCache /\ [][CacheNext]_vars

SpecCacheThreads == InitCache /\ [][CacheThreadsNext]_vars

InitGraph == FuseIdle /\ ResearchIdle /\ CacheIdle /\ GraphInit /\ RouterIdle /\ ChatIdle /\ ProgressIdle /\ BroadcastIdle /\ KgIdle /\ TransformIdle /\ RagIdle

SpecGraph == InitGraph /\ [][GraphNext]_vars

InitRouter == FuseIdle /\ ResearchIdle /\ CacheIdle /\ GraphIdle /\ RouterInit /\ ChatIdle /\ ProgressIdle /\ BroadcastIdle /\ KgIdle /\ TransformIdle /\ RagIdle

SpecRouter == InitRouter /\ [][RouterNext]_vars

InitChat ==
    /\ FuseIdle /\ ResearchIdle /\ CacheIdle /\ GraphIdle /\ RouterIdle /\ ChatInit
    /\ ProgressIdle /\ BroadcastIdle /\ KgIdle /\ TransformIdle /\ RagIdle

SpecChat == InitChat /\ [][ChatNext]_vars

InitProgress ==
    /\ FuseIdle /\ ResearchIdle /\ CacheIdle /\ GraphIdle /\ RouterIdle /\ ChatIdle
    /\ ProgressInit /\ BroadcastIdle /\ KgIdle /\ TransformIdle /\ RagIdle

SpecProgress == InitProgress /\ [][ProgressNext]_vars

InitBroadcast ==
    /\ FuseIdle /\ ResearchIdle /\ CacheIdle /\ GraphIdle /\ RouterIdle /\ ChatIdle
    /\ JobInit /\ BroadcastInit /\ KgIdle /\ TransformIdle /\ RagIdle

SpecBroadcast == InitBroadcast /\ [][BroadcastNext]_vars

InitTracker ==
    /\ FuseIdle /\ ResearchIdle /\ CacheIdle /\ GraphIdle /\ RouterIdle /\ ChatIdle
    /\ TrackerInit /\ KgIdle /\ TransformIdle /\ RagIdle

SpecTracker == InitTracker /\ [][TrackerNext]_vars

InitKg ==
    /\ FuseIdle /\ ResearchIdle /\ CacheIdle /\ GraphIdle /\ RouterIdle /\ ChatIdle
    /\ ProgressIdle /\ BroadcastIdle /\ KgInit /\ TransformIdle /\ RagIdle

SpecKg == InitKg /\ [][KgNext]_vars

SpecKgConcurrent == InitKg /\ [][KgConcurrentNext]_vars

InitTransform ==
    /\ FuseIdle /\ ResearchIdle /\ CacheIdle /\ GraphIdle /\ RouterIdle /\ ChatIdle
    /\ ProgressIdle /\ BroadcastIdle /\ KgIdle /\ TransformInit /\ RagIdle

SpecTransform == InitTransform /\ [][TransformNext]_vars

InitRag ==
    /\ FuseIdle /\ ResearchIdle /\ CacheInit /\ GraphIdle /\ RouterIdle /\ ChatIdle
    /\ ProgressIdle /\ BroadcastIdle /\ KgIdle /\ TransformIdle /\ RagInit

SpecRag == InitRag /\ [][RagNext]_vars

(***************************************************************************)
(* Claims about fuse, stated over the arguments and the returned list.     *)
(***************************************************************************)
\* the weights as the caller meant them: the ones given, or all equal
StatedWeights ==
    IF weights.given THEN weights.v ELSE [i \in 1..Len(result_sets) |-> 1]

\* the lists that take part: those that have a weight and a name
UsedLists ==
    {l \in 1..Len(result_sets) :
        /\ l <= Len(StatedWeights)
        /\ method_names.given => l <= Len(method_names.v)}

\* the 0-indexed ranks at which key occurs in list l
RanksOf(key, l) ==
    {p - 1 : p \in {q \in 1..Len(result_sets[l]) : FuseKey(result_sets[l][q][1]) = key}}

OccurrencesOf(key) == {<<l, r>> \in UsedLists \X (0..MaxLen) : r \in RanksOf(key, l)}

RECURSIVE SumStatedWeights(_)
SumStatedWeights(S) ==
    IF S = {} THEN 0
    ELSE LET l == CHOOSE x \in S : TRUE
         IN  StatedWeights[l] + SumStatedWeights(S \ {l})

\* w / (60 + r) with w the weight of list l divided by the sum of all weights
StatedContribution(l, r) ==
    Rat(StatedWeights[l], SumStatedWeights(DOMAIN StatedWeights) * (60 + r))

RECURSIVE SumContributions(_)
SumContributions(S) ==
    IF S = {} THEN RatZero
    ELSE LET o == CHOOSE x \in S : TRUE
         IN  RatAdd(StatedContribution(o[1], o[2]), SumContributions(S \ {o}))

EffectiveWeights == NormalizeWeights(DefaultWeights(result_sets, weights))

\* C8: with positive weights, fuse divides each weight by the sum of the
\* weights (equal weights when none are given), so the effective weights sum
\* to 1, and every returned item's rrf_score is the sum over its occurrences,
\* at 0-indexed rank r in a list of effective weight w, of w / (60 + r).
C8_RrfScoreIsWeightedSum ==
    /\ \A l \in DOMAIN EffectiveWeights :
          EffectiveWeights[l] =
              Rat(StatedWeights[l], SumStatedWeights(DOMAIN StatedWeights))
    /\ EffectiveWeights # <<>> => RatSum(EffectiveWeights) = <<1, 1>>
    /\ fpc = "returned" =>
          \A i \in DOMAIN fused :
              fused[i].rrf_score = SumContributions(OccurrencesOf(fused[i].key))

\* an item found in two lists of different weight, once below the top rank
C8_Witness ==
    /\ fpc = "returned"
    /\ weights.given /\ Len(weights.v) = 3 /\ weights.v[1] # weights.v[2]
    /\ \E i \in DOMAIN fused :
          /\ Len(fused[i].fusion_details) >= 2
          /\ \E l \in {1, 2} : 1 \in RanksOf(fused[i].key, l)
          /\ \A l \in {1, 2} : RanksOf(fused[i].key, l) # {}

\* x is at least as well placed as y in list l: every occurrence of y is
\* matched by an occurrence of x of its own at the same rank or a better one
AtLeastAsWellPlaced(x, y, l) ==
    \E f \in [RanksOf(y, l) -> RanksOf(x, l)] :
        /\ \A r \in RanksOf(y, l) : f[r] <= r
        /\ \A r1, r2 \in RanksOf(y, l) : r1 # r2 => f[r1] # f[r2]

Dominates(x, y) == \A l \in UsedLists : AtLeastAsWellPlaced(x, y, l)

PositionOf(key) ==
    IF \E i \in DOMAIN fused : fused[i].key = key
    THEN CHOOSE i \in DOMAIN fused : fused[i].key = key
    ELSE 0

\* the scenario of the specification: lists [A, B] and [B, C], equal weights
IsScenario(a, b, c) ==
    /\ Len(result_sets) = 2
    /\ Len(result_sets[1]) = 2 /\ Len(result_sets[2]) = 2
    /\ FuseKey(result_sets[1][1][1]) = a /\ FuseKey(result_sets[1][2][1]) = b
    /\ FuseKey(result_sets[2][1][1]) = b /\ FuseKey(result_sets[2][2][1]) = c
    /\ a # b /\ b # c /\ a # c
    /\ StatedWeights[1] = StatedWeights[2]

\* C9: an item that is in every list at least as well placed as another item
\* (in more lists, or at better ranks) never has the lower fused score; with
\* lists [A, B] and [B, C] and equal weights, B comes first.
C9_FusionMonotone ==
    fpc = "returned" =>
        /\ \A i, j \in DOMAIN fused :
              Dominates(fused[i].key, fused[j].key) =>
                  RatLeq(fused[j].rrf_score, fused[i].rrf_score)
        /\ \A a, b, c \in {FuseKey(ch) : ch \in Chunks} :
              IsScenario(a, b, c) =>
                  /\ PositionOf(b) = 1
                  /\ RatLess(fused[PositionOf(a)].rrf_score, fused[1].rrf_score)
                  /\ RatLess(fused[PositionOf(c)].rrf_score, fused[1].rrf_score)

\* the scenario itself has been fused
C9_Witness ==
    /\ fpc = "returned"
    /\ IsScenario(FuseKey(cA), FuseKey(cB), FuseKey(cC))
    /\ Len(fused) = 3
    /\ Dominates(fused[1].key, fused[3].key)

\* every key that occurs in a list that takes part
InputKeys ==
    {FuseKey(result_sets[l][p][1]) : <<l, p>> \in
        {<<l, p>> \in UsedLists \X (1..MaxLen) : p <= Len(result_sets[l])}}

\* the place <<list, rank>> where key is first met
FirstSeen(key) ==
    CHOOSE o \in OccurrencesOf(key) :
        \A o2 \in OccurrencesOf(key) :
            o[1] < o2[1] \/ (o[1] = o2[1] /\ o[2] <= o2[2])

SeenBefore(k1, k2) ==
    \/ FirstSeen(k1)[1] < FirstSeen(k2)[1]
    \/ FirstSeen(k1)[1] = FirstSeen(k2)[1] /\ FirstSeen(k1)[2] < FirstSeen(k2)[2]

\* C10: fuse returns each distinct key of its input exactly once, in
\* non-increasing order of rrf_score, items of equal score in the order in
\* which their keys were first met across the lists; so the returned order
\* and scores are fixed by the arguments alone.
C10_FuseOrderDetermined ==
    fpc = "returned" =>
        /\ {fused[i].key : i \in DOMAIN fused} = InputKeys
        /\ \A i, j \in DOMAIN fused : i # j => fused[i].key # fused[j].key
        /\ \A i, j \in DOMAIN fused :
              i < j =>
                  /\ RatLeq(fused[j].rrf_score, fused[i].rrf_score)
                  /\ fused[i].rrf_score = fused[j].rrf_score =>
                        SeenBefore(fused[i].key, fused[j].key)

\* three items returned, two of them tied, one key met more than once
C10_Witness ==
    /\ fpc = "returned"
    /\ Len(fused) = 3
    /\ \E i \in 1..2 : fused[i].rrf_score = fused[i + 1].rrf_score
    /\ \E i \in DOMAIN fused : Len(fused[i].fusion_details) >= 2

(***************************************************************************)
(* Claims about the research loop.                                         *)
(***************************************************************************)
\* C1: for MAX_LOOPS = N >= 1 and any planner, research() ends, having run
\* at most N retrieval steps and at most N - 1 planner calls; when every
\* planner reply said CONTINUE it ends with exactly N retrieval steps and
\* N - 1 planner calls, the N-th step being followed by no further call.
C1_ResearchBounded ==
    /\ <>(rpc = "done")
    /\ [](MAX_LOOPS >= 1 =>
            /\ retrievals <= MAX_LOOPS
            /\ plannerCalls <= MAX_LOOPS - 1
            /\ (rpc = "done" /\ allContinue) =>
                  retrievals = MAX_LOOPS /\ plannerCalls = MAX_LOOPS - 1)

\* the default budget used up by a planner that always said CONTINUE
C1_Witness ==
    /\ rpc = "done"
    /\ MAX_LOOPS = 3
    /\ allContinue
    /\ retrievals = 3
    /\ plannerCalls = 2

PlannerFailed(outcome) == outcome.kind \in {"raise", "badjson"}

\* C2: a planner call that fails (the provider raises, or its reply is not
\* JSON) ends the loop as a COMPLETE answer does: the step leaves the
\* accumulated items as they were and returns them, and no retrieval follows.
C2_PlannerFailureStops ==
    /\ [][(plannerCalls' = plannerCalls + 1 /\ PlannerFailed(lastOutcome')) =>
            /\ rpc' = "done"
            /\ accumulated_chunks' = accumulated_chunks
            /\ research_result' = accumulated_chunks
            /\ <<current_query', step', retrievals'>> = <<current_query, step, retrievals>>]_vars
    /\ [](PlannerFailed(lastOutcome) =>
            /\ rpc = "done"
            /\ research_result = accumulated_chunks
            /\ retrievals = plannerCalls)

\* the second planner call failed with items already gathered
C2_Witness ==
    /\ PlannerFailed(lastOutcome)
    /\ plannerCalls = 2
    /\ rpc = "done"
    /\ Len(research_result) >= 2

SaidComplete(outcome) ==
    PlannerFailed(outcome) \/ DictGet(outcome.body, "status", None) = "COMPLETE"

\* C3: the planner is consulted exactly once after every retrieval step but
\* the last; a COMPLETE answer ends the loop with what was accumulated up to
\* that step; any other answer makes the next step search the planner's
\* next_query, or the current query again when the planner gave none.
C3_PlannerConsultedBetweenSteps ==
    /\ [](/\ rpc = "search" => plannerCalls = retrievals /\ retrievals < MAX_LOOPS
          /\ rpc = "plan" => plannerCalls = retrievals - 1 /\ retrievals < MAX_LOOPS
          /\ rpc = "done" =>
                \/ plannerCalls = retrievals - 1 /\ retrievals = MAX_LOOPS
                \/ plannerCalls = retrievals /\ retrievals < MAX_LOOPS
                     /\ SaidComplete(lastOutcome)
                \/ MAX_LOOPS = 0 /\ plannerCalls = 0 /\ retrievals = 0)
    /\ [][plannerCalls' = plannerCalls + 1 =>
            IF SaidComplete(lastOutcome')
            THEN /\ rpc' = "done"
                 /\ research_result' = accumulated_chunks
                 /\ accumulated_chunks' = accumulated_chunks
            ELSE /\ rpc' = "search"
                 /\ current_query' =
                       IF "next_query" \in DOMAIN lastOutcome'.body
                       THEN lastOutcome'.body.next_query
                       ELSE current_query]_vars
    /\ [][retrievals' = retrievals + 1 =>
            /\ searched' = current_query
            /\ rpc \in {"search"}
            /\ plannerCalls' = plannerCalls]_vars

\* a step that searched the query the planner asked for, not the original one
C3_Witness ==
    /\ retrievals = 2
    /\ plannerCalls = 1
    /\ searched # query
    /\ "next_query" \in DOMAIN lastOutcome.body
    /\ searched = lastOutcome.body.next_query

KeysOf(chunks) == {ResearchKey(chunks[i]) : i \in DOMAIN chunks}

\* the chunks of a step that arrive for the first time, in their order
RECURSIVE FirstArrivals(_, _)
FirstArrivals(chunks, known) ==
    IF chunks = <<>> THEN <<>>
    ELSE IF ResearchKey(Head(chunks)) \in known
         THEN FirstArrivals(Tail(chunks), known)
         ELSE <<Head(chunks)>>
                  \o FirstArrivals(Tail(chunks), known \union {ResearchKey(Head(chunks))})

\* C4: the accumulated list never holds two items with the same
\* deduplication key; a step only appends to it, in their order, the items
\* whose key arrives for the first time; research() returns that list.
C4_AccumulationDeduplicated ==
    /\ [](/\ \A i, j \in DOMAIN accumulated_chunks :
                i # j => ResearchKey(accumulated_chunks[i]) # ResearchKey(accumulated_chunks[j])
          /\ seen_ids = KeysOf(accumulated_chunks)
          /\ rpc = "done" => research_result = accumulated_chunks)
    /\ [][IF retrievals' = retrievals + 1
          THEN accumulated_chunks' =
                   accumulated_chunks
                       \o FirstArrivals(step_chunks', KeysOf(accumulated_chunks))
          ELSE accumulated_chunks' = accumulated_chunks]_vars

\* a later step brought back a seen key together with a new one, and one step
\* returned two chunks that share a key
C4_Witness ==
    /\ rpc = "done"
    /\ retrievals = 3
    /\ Len(research_result) = 3
    /\ Len(step_chunks) = 3
    /\ \E i \in DOMAIN step_chunks :
          /\ ResearchKey(step_chunks[i]) \in KeysOf(SubSeq(research_result, 1, 2))
          /\ step_chunks[i] \notin Range(research_result)

(***************************************************************************)
(* Claims about the cache, one caller at a time.                           *)
(***************************************************************************)
\* the step is a get
IsGetStep == lastGet'.flip # lastGet.flip

\* the dict without its i-th entry, the others in their order
WithoutEntry(c, i) ==
    [j \in 1..(Len(c) - 1) |-> IF j < i THEN c[j] ELSE c[j + 1]]

\* C5: get never returns a value whose expiry is at or before the current
\* time; a get that finds an expired entry removes that entry, and only it,
\* and reports a miss; a get of an absent key reports a miss and leaves the
\* map as it is.
C5_GetNeverServesExpired ==
    [][IsGetStep =>
        LET key == lastGet'.key
            i == CacheIndex(cache, key)
        IN  /\ lastGet'.result # None =>
                  /\ i # 0
                  /\ now < cache[i].expiry
                  /\ lastGet'.result = cache[i].value
                  /\ cache' = cache
            /\ (i # 0 /\ cache[i].expiry <= now) =>
                  /\ lastGet'.result = None
                  /\ cache' = WithoutEntry(cache, i)
            /\ i = 0 => lastGet'.result = None /\ cache' = cache]_vars

\* a get has just removed the expired entry of the tracked key
C5_Witness ==
    /\ lastGet.key = TrackedKey
    /\ lastGet.result = None
    /\ lastSet.done /\ ~lastSet.evicted
    /\ now >= lastSet.expires
    /\ CacheIndex(cache, TrackedKey) = 0
    /\ Len(cache) >= 2

\* C6 as stated: after set(key, v, ttl=T), every get(key) before T seconds
\* have passed returns v and every get(key) from then on is a miss, whatever
\* other cache operations happen in between.
C6_TtlWhateverHappens ==
    [][(IsGetStep /\ lastGet'.key = TrackedKey /\ lastSet.done) =>
        /\ now < lastSet.expires => lastGet'.result = lastSet.value
        /\ now >= lastSet.expires => lastGet'.result = None]_vars

\* C6 as amended: after set(key, v, ttl=T), every get(key) before T seconds
\* have passed returns v unless a set made while the map was full has
\* evicted the entry, and every get(key) once T seconds have passed is a miss.
C6_TtlUnlessEvicted ==
    [][(IsGetStep /\ lastGet'.key = TrackedKey /\ lastSet.done) =>
        /\ (now < lastSet.expires /\ ~lastSet.evicted) =>
              lastGet'.result = lastSet.value
        /\ now >= lastSet.expires => lastGet'.result = None]_vars

\* a hit after time has passed and other keys were stored and looked up
C6_Witness ==
    /\ lastGet.key = TrackedKey
    /\ lastGet.result = "v2"
    /\ lastSet.done /\ lastSet.value = "v2" /\ ~lastSet.evicted
    /\ now = 1 /\ lastSet.expires = 1 + DEFAULT_TTL
    /\ Len(cache) >= 3

(***************************************************************************)
(* Claims about the cache under concurrent callers.                        *)
(***************************************************************************)
\* the statements that read or write self._cache
InCritical(t) ==
    thread[t].pc \in {"g_check", "g_del", "g_unlock", "s_room", "s_store", "s_unlock"}

\* C7: every read and write of the map is made by the thread that holds the
\* lock, so at most one thread is inside a critical section at a time; the
\* entry a get is about to delete is the expired entry that get observed, so
\* a value a concurrent set has written is never deleted by it.
C7_CacheAccessUnderLock ==
    /\ [](\A t \in Threads : InCritical(t) => lock = t)
    /\ [](\A t1, t2 \in Threads : (InCritical(t1) /\ InCritical(t2)) => t1 = t2)
    /\ [](\A t \in Threads :
            thread[t].pc = "g_del" =>
                /\ CacheIndex(cache, thread[t].key) # 0
                /\ cache[CacheIndex(cache, thread[t].key)] = thread[t].seen
                /\ thread[t].seen.expiry <= now)
    /\ [][cache' # cache =>
            \E t \in Threads : lock = t /\ InCritical(t) /\ thread'[t] # thread[t]]_vars

\* a get is about to delete the expired entry while a set of the same key,
\* carrying a fresh value, waits for the lock
C7_Witness ==
    /\ thread["t1"].pc = "g_del"
    /\ thread["t2"].pc = "s_lock"
    /\ thread["t2"].key = thread["t1"].key
    /\ thread["t2"].expiry > now
    /\ lock = "t1"

(***************************************************************************)
(* Claims about the graph traversal.                                       *)
(***************************************************************************)
\* the scored paths find_paths keeps: those its scoring stage has produced
\* and those a call has returned
KeptPaths == Range(scored_paths) \cup Range(find_paths_result.paths)

\* the confidence stored on an edge is below the floor
StoredBelowFloor(edge) ==
    "confidence" \in DOMAIN edge /\ edge.confidence < MIN_CONFIDENCE

HasWeakEdge(path) == \E i \in DOMAIN path : StoredBelowFloor(path[i])

\* C11: no path with an edge confidence below MIN_CONFIDENCE is among the
\* paths find_paths keeps, whatever its length, its edge types and its other
\* confidences: every found path with such an edge is dropped by the scoring.
C11_ConfidenceFloor ==
    /\ \A r \in KeptPaths : ~HasWeakEdge(r.path)
    /\ gpc = "scored" =>
         \A i \in DOMAIN found_paths :
            HasWeakEdge(found_paths[i]) =>
                \A r \in Range(scored_paths) : r.path # found_paths[i]

\* a 2-hop path with confidences 0.9 and 0.2 was found and is not kept,
\* while other paths are
C11_Witness ==
    /\ gpc = "scored"
    /\ scored_paths # <<>>
    /\ \E i \in DOMAIN found_paths :
         /\ Len(found_paths[i]) = 2
         /\ Confidences(found_paths[i]) = <<90, 20>>
         /\ \A r \in Range(scored_paths) : r.path # found_paths[i]

\* the nodes a path passes, in order
NodesOf(path) == <<path[1].from_id>> \o [i \in DOMAIN path |-> path[i].to_id]

\* the edge is a relationship of the graph leaving its from_id
IsOutgoingEdge(edge) ==
    /\ edge.from_id \in NodeIds
    /\ edge.to_id \in NodeIds
    /\ <<NodeIndex(edge.from_id), NodeIndex(edge.to_id)>> \in graph.adj
    /\ edge.n \in 1..graph.fan
    /\ edge = EdgeOf(NodeIndex(edge.from_id), NodeIndex(edge.to_id), edge.n)

IsSimpleWalk(path, start, end, hops) ==
    /\ Len(path) >= 1
    /\ Len(path) <= hops
    /\ start # end
    /\ path[1].from_id = start
    /\ path[Len(path)].to_id = end
    /\ \A i \in DOMAIN path : IsOutgoingEdge(path[i])
    /\ \A i \in 1..(Len(path) - 1) : path[i + 1].from_id = path[i].to_id
    /\ LET nodes == NodesOf(path)
       IN  \A i, j \in DOMAIN nodes : nodes[i] = nodes[j] => i = j

\* C12: every path found, and so every path kept, is a directed walk along
\* outgoing edges from the start node to the different end node, of 1 to
\* max_hops edges, each edge starting where the previous one ends, no node
\* occurring twice.
C12_PathsAreSimpleWalks ==
    /\ \A i \in DOMAIN found_paths :
          IsSimpleWalk(found_paths[i], start_id, end_id, max_hops)
    /\ \A r \in Range(scored_paths) :
          /\ \E i \in DOMAIN found_paths : r.path = found_paths[i]
          /\ r.hop_count = Len(r.path)
          /\ r.nodes = NodesOf(r.path)
    /\ \A r \in Range(find_paths_result.paths) :
          \E s \in NodeIds, e \in NodeIds : IsSimpleWalk(r.path, s, e, MAX_HOPS)

\* a 3-hop path is kept in a graph where the middle node has a self-loop and
\* a relationship back to the start
C12_Witness ==
    /\ gpc = "scored"
    /\ {<<2, 2>>, <<2, 1>>, <<3, 2>>} \subseteq graph.adj
    /\ \E r \in Range(scored_paths) : r.hop_count = 3 /\ r.nodes[2] = NodeId(2)

\* no node has more outgoing relationships than this
OutDegreeBound == NumNodes * MaxFan + 1

RECURSIVE Power(_, _)
Power(b, e) == IF e <= 0 THEN 1 ELSE b * Power(b, e - 1)

\* what is left to explore: each queued path counts for all the ways it
\* could still be extended within max_hops
RECURSIVE WorkLeft(_)
WorkLeft(q) ==
    IF q = <<>> THEN 0
    ELSE Power(OutDegreeBound + 1, max_hops - Len(q[1].path)) + WorkLeft(Tail(q))

\* C13: on every graph, with cycles, self-loops and parallel relationships,
\* the search of a pair ends: every iteration of its loop strictly reduces
\* the work left, a natural number, and nothing but the loop or the return
\* follows the loop; it never holds more than 20 paths.
C13_BfsTerminatesCapped ==
    /\ [](Len(found_paths) <= FOUND_CAP)
    /\ [](\A i \in DOMAIN queue : Len(OutEdges(graph.adj, graph.fan, graph.dangling,
                                                 NodeIndex(queue[i].current)))
                                      <= OutDegreeBound)
    /\ [][gpc = "bfs" =>
            \/ gpc' = "bfs" /\ WorkLeft(queue') < WorkLeft(queue)
            \/ gpc' = "found" /\ found_paths' = found_paths]_vars

\* the search has ended at the cap with work left in the queue, in a graph
\* with a self-loop, a cycle and parallel relationships
C13_Witness ==
    /\ gpc = "found"
    /\ Len(found_paths) = FOUND_CAP
    /\ queue # <<>>
    /\ graph.fan > 1
    /\ {<<1, 1>>, <<1, 2>>, <<2, 1>>} \subseteq graph.adj

(***************************************************************************)
(* QueryRouter claims.                                                     *)
(***************************************************************************)
RoutedLower == StrStrip(StrLower(router_query))

RoutedWordCount == SplitCount(router_query)

MatchesGreeting == RegexSearch(GREETING_PATTERNS, RoutedLower)

MatchesChitchat == RegexSearch(CHITCHAT_PATTERNS, RoutedLower)

ContainsKeyword == \E kw \in AUTO_TRIGGER_KEYWORDS : Contains(RoutedLower, kw)

MatchesFactual == RegexSearch(SIMPLE_FACTUAL_INDICATORS, RoutedLower)

ShortFactual == (RoutedWordCount <= 6 /\ MatchesFactual) \/ RoutedWordCount <= 3

\* C14: route_query returns the category of the first rule that matches, in
\* the order greeting, chitchat, agentic keyword, simple (at most 6 words
\* with a factual pattern, or at most 3 words), else complex; the category
\* is one of the five, the flags are the fixed bundle of the category, and
\* they agree with should_use_rag, should_use_hyde and should_use_agent.
C14_FirstMatchingRule ==
    qpc = "returned" =>
        LET route == routed.route
            meta == routed.metadata
        IN  /\ route \in {"greeting", "chitchat", "agentic", "simple", "complex"}
            /\ route = "greeting" <=> MatchesGreeting
            /\ route = "chitchat" <=> ~MatchesGreeting /\ MatchesChitchat
            /\ route = "agentic" <=>
                   ~MatchesGreeting /\ ~MatchesChitchat /\ ENABLE_AGENTIC_RAG /\ ContainsKeyword
            /\ route = "simple" <=>
                   /\ ~MatchesGreeting /\ ~MatchesChitchat
                   /\ ~(ENABLE_AGENTIC_RAG /\ ContainsKeyword)
                   /\ ShortFactual
            /\ meta.skip_rag = (route \in {"greeting", "chitchat"})
            /\ meta.skip_hyde = (route \in {"greeting", "chitchat", "simple"})
            /\ meta.use_cache = (route \notin {"greeting", "chitchat"})
            /\ DictGet(meta, "use_agent", FALSE) = (route = "agentic")
            /\ meta.skip_rag = ~should_use_rag(route)
            /\ meta.skip_hyde = ~should_use_hyde(route)
            /\ DictGet(meta, "use_agent", FALSE) = should_use_agent(route)

\* an acknowledgment that also holds a trigger keyword is answered as chitchat
C14_Witness ==
    /\ qpc = "returned"
    /\ MatchesChitchat /\ ContainsKeyword /\ ~MatchesGreeting
    /\ routed.route = "chitchat"

\* C15 as stated: with agentic routing enabled, every query containing a
\* trigger keyword is routed to agentic with use_agent = true.
C15_EveryKeywordQueryAgentic ==
    (qpc = "returned" /\ ENABLE_AGENTIC_RAG /\ ContainsKeyword) =>
        /\ routed.route = "agentic"
        /\ DictGet(routed.metadata, "use_agent", FALSE)

\* C15: with agentic routing enabled, every query that contains a trigger
\* keyword and matches no greeting and no chitchat pattern is routed to
\* agentic with use_agent = true.
C15_KeywordQueryAgentic ==
    (/\ qpc = "returned"
     /\ ENABLE_AGENTIC_RAG /\ ContainsKeyword
     /\ ~MatchesGreeting /\ ~MatchesChitchat) =>
        /\ routed.route = "agentic"
        /\ DictGet(routed.metadata, "use_agent", FALSE)

\* the keyword sits inside a longer word of a short factual question
C15_Witness ==
    /\ qpc = "returned"
    /\ ContainsKeyword /\ ~HasTriggerKeyword_WholeWord(RoutedLower)
    /\ MatchesFactual /\ RoutedWordCount <= 6
    /\ routed.route = "agentic"
    /\ routed.metadata.use_agent

\* C16 as stated: every query of at most 6 words that contains a
\* simple-factual indicator is routed to simple, with skip_hyde = true and
\* skip_rag = false.
C16_EveryShortFactualSimple ==
    (qpc = "returned" /\ RoutedWordCount <= 6 /\ MatchesFactual) =>
        /\ routed.route = "simple"
        /\ routed.metadata.skip_hyde
        /\ ~routed.metadata.skip_rag

\* C16: every query of at most 6 words that contains a simple-factual
\* indicator, matches no greeting and no chitchat pattern and is not routed
\* to agentic by a trigger keyword, is routed to simple, with
\* skip_hyde = true and skip_rag = false.
C16_ShortFactualSimple ==
    (/\ qpc = "returned"
     /\ RoutedWordCount <= 6 /\ MatchesFactual
     /\ ~MatchesGreeting /\ ~MatchesChitchat
     /\ ~(ENABLE_AGENTIC_RAG /\ ContainsKeyword)) =>
        /\ routed.route = "simple"
        /\ routed.metadata.skip_hyde
        /\ ~routed.metadata.skip_rag

\* a factual question of exactly six words
C16_Witness ==
    /\ qpc = "returned"
    /\ RoutedWordCount = 6 /\ MatchesFactual
    /\ routed.route = "simple"
    /\ routed.metadata.skip_hyde /\ ~routed.metadata.skip_rag

(***************************************************************************)
(* ChatService claims.                                                     *)
(***************************************************************************)
Called(name) == \E i \in DOMAIN calls : calls[i] = name

SubSearchNames == {"vector", "bm25", "kg"}

\* the calls _retrieve_rag_context makes after its cache lookup
LaterRetrievalCalls ==
    {"agent.research", "cache.set", "analyze_query", "generate_hyde_doc", "critique_hyde",
     "embed_query", "vector_store.search", "bm25.search", "graph.search_by_query",
     "fuse", "rerank"}

\* C17: for a query routed to greeting or chitchat (skip_rag = true) the
\* pipeline emits the templated reply followed by the done signal and
\* finishes, with no retrieval, cache lookup, cache write, query
\* transformation or language-model call.
C17_QuickReplyWithoutRetrieval ==
    /\ [](route_info.route \in {"greeting", "chitchat"} =>
            /\ route_info.metadata.skip_rag
            /\ cpc \in {"quick", "finished"}
            /\ Range(calls) \subseteq {"route_query", "format_quick_response"}
            /\ retrieval = NoRetrieval
            /\ context_chunks = <<>>
            /\ cpc = "quick" => events = <<>>
            /\ cpc = "finished" =>
                  /\ Len(events) = 2
                  /\ events[1].kind = "content"
                  /\ events[1].text \in {GREETING_REPLY, THANKS_REPLY, OTHER_REPLY}
                  /\ route_info.route = "greeting" <=> events[1].text = GREETING_REPLY
                  /\ events[2] = DoneEvent)
    /\ [][cpc = "quick" => cpc' = "finished"]_vars

\* thanks are answered with the templated reply, retrieval being asked for
C17_Witness ==
    /\ cpc = "finished"
    /\ use_rag
    /\ route_info.route = "chitchat"
    /\ events = <<ContentEvent(THANKS_REPLY), DoneEvent>>

\* C18 as stated: if one of the three sub-searches fails, it contributes an
\* empty list: the other two are still run, and their results are fused,
\* reranked and returned as the context.
C18_FailedSubSearchContributesEmpty ==
    (\E f \in SubSearchNames : sub_search[f].state = "raised") =>
        /\ \A f \in SubSearchNames : sub_search[f].state # "not_called"
        /\ (\E f \in SubSearchNames : sub_search[f].hits # <<>>) =>
              /\ Called("fuse")
              /\ Called("rerank")

\* C19 as stated: _retrieve_rag_context never raises, whatever call fails,
\* and the pipeline goes on to request a response from the language model.
C19_RetrievalNeverRaises ==
    /\ retrieval.outcome # "raised"
    /\ (cpc = "finished" /\ ~DictGet(route_info.metadata, "skip_rag", FALSE)) =>
           Called("chat.completions.create")

\* C19: whatever call of the retrieval fails, the pipeline goes on to the
\* compression and to the request to the language model; and
\* _retrieve_rag_context returns a (possibly empty) list unless its cache
\* lookup fails, in which case the exception is caught by
\* stream_chat_response, which goes on with an empty context.
C19_RetrievalErrorsStayInside ==
    /\ [](retrieval.outcome = "raised" =>
            /\ Called("cache.get")
            /\ Range(calls) \cap LaterRetrievalCalls = {}
            /\ context_chunks = <<>>)
    /\ [](retrieval.outcome = "returned" => context_chunks = retrieval.value)
    /\ []((cpc = "finished" /\ ~DictGet(route_info.metadata, "skip_rag", FALSE)) =>
            Called("chat.completions.create"))
    /\ [][(cpc \in {"cache", "agent", "transform", "search"}) =>
            (cpc' \in {"agent", "transform", "search", "compress"})]_vars
    /\ [][cpc = "compress" => cpc' = "llm"]_vars
    /\ [][cpc = "llm" => cpc' = "finished" /\ Called("chat.completions.create")']_vars

\* the reranker raised after the fusion: the context is empty and the
\* language model was still asked
C19_Witness ==
    /\ cpc = "finished"
    /\ Called("rerank") /\ ~Called("cache.set")
    /\ retrieval = RetrievalReturned(<<>>)
    /\ Called("chat.completions.create")

(***************************************************************************)
(* ProgressTracker claims.                                                 *)
(***************************************************************************)
\* the place of a stage in the order of the job's state machine; completed
\* and failed are both the end
StageRank(stage) ==
    LET i == CHOOSE k \in DOMAIN ProcessingStage : ProcessingStage[k] = stage
    IN  Min(i, Len(ProcessingStage) - 1)

\* C20 as stated: the stage of a job's progress record never moves back to
\* an earlier stage, and once the record is completed or failed no later
\* update_stage, mark_completed or mark_failed call changes its stage.
C20_StagesOnlyAdvance ==
    [][\A f \in FileIds :
          (/\ last_call'.op \in {"update_stage", "mark_completed", "mark_failed"}
           /\ progress_data[f].present) =>
              /\ StageRank(progress_data'[f].stage) >= StageRank(progress_data[f].stage)
              /\ progress_data[f].stage \in {"completed", "failed"} =>
                    progress_data'[f].stage = progress_data[f].stage]_vars


(***************************************************************************)
(* Broadcasts of the progress tracker                                      *)
(***************************************************************************)
Failed(t) == tasks[t].pc = "failed"

Finished(t) == tasks[t].pc \in {"done", "failed"}

\* the step in which task t comes to its end
Finishes(t) == ~Finished(t) /\ Finished(t)'

\* C21 as stated: when a delivery of a broadcast fails, the broadcast ends
\* without an error, the failed subscriber is no longer in the job's set,
\* and every other subscriber registered for the whole broadcast got the
\* record.  The code breaks it: a registration during a later send of the
\* same broadcast makes the loop raise before the cleanup.
C21_FailedDeliveryIsContained ==
    \A t \in DOMAIN tasks :
        (tasks[t].dead # {} /\ Finished(t)) =>
            /\ ~Failed(t)
            /\ (tasks[t].stayed \ tasks[t].dead) \subseteq tasks[t].received

\* C22 as stated: under every interleaving of register_connection,
\* unregister_connection and broadcasts of one job no broadcast fails, and
\* every subscriber registered for the whole broadcast gets the record.
\* The code breaks it: the set changes size while the loop awaits a send.
C22_BroadcastNeverFails ==
    \A t \in DOMAIN tasks :
        /\ ~Failed(t)
        /\ Finished(t) => (tasks[t].stayed \ tasks[t].dead) \subseteq tasks[t].received

\* the entry of a job is never missing when a broadcast cleans up
NoKeyError == \A t \in DOMAIN tasks : tasks[t].error # "KeyError"

\* a broadcast that ends without an error has served every subscriber that
\* stayed, and its dead subscribers are out of the set
DoneBroadcastServedAll ==
    [][\A t \in DOMAIN tasks :
          (Finishes(t) /\ tasks[t].pc' = "done") =>
              /\ (tasks[t].stayed' \ tasks[t].dead') \subseteq tasks[t].received'
              /\ tasks[t].dead' \cap connections[BroadcastFile].members' = {}]_vars


(***************************************************************************)
(* Knowledge Store                                                         *)
(***************************************************************************)
\* the ids of the entities of a result
EntityIdsOf(er) == {er.entities[i].id : i \in DOMAIN er.entities}

\* a relationship between the nodes of two ids is stored
Joined(from_id, to_id, rel_type) ==
    \E e \in kg_edges :
        /\ e.type = rel_type
        /\ kg_nodes[e.from].id = from_id
        /\ kg_nodes[e.to].id = to_id

\* C23: the two ends of every stored relationship are stored nodes; a
\* relationship both of whose ends are entities of the same result is
\* stored by that call, one with a missing end is not; after clear_all
\* neither nodes nor relationships are left.
C23_EdgesJoinStoredNodes ==
    /\ \A e \in kg_edges :
          /\ e.from \in DOMAIN kg_nodes
          /\ e.to \in DOMAIN kg_nodes
    /\ kg_last.op = "add" =>
          \A i \in DOMAIN kg_last.er.relationships :
              LET rel == kg_last.er.relationships[i]
              IN  {rel.from_id, rel.to_id} \subseteq EntityIdsOf(kg_last.er)
                      => Joined(rel.from_id, rel.to_id, RelTypeOf(rel))
    /\ kg_last.op = "clear" => (kg_nodes = <<>> /\ kg_edges = {})

\* a call whose relationship was dropped for want of an end, the nodes of
\* its entities stored
C23_Witness ==
    /\ kg_last.op = "add"
    /\ kg_last.er.relationships # <<>>
    /\ kg_nodes # <<>>
    /\ kg_edges = {}


\* the step of an add_extraction_result call
Adds == kg_adds' = kg_adds + 1

\* the length of a description, none counting as the empty one
DescLen(d) == IF d = None THEN 0 ELSE Len(d)

\* the chunk ids of a node as a set
ChunkSet(node) == {node.source_chunks[i] : i \in DOMAIN node.source_chunks}

NoDuplicates(s) == \A i, j \in DOMAIN s : s[i] = s[j] => i = j

\* C25 as stated: a call that inserts one entity whose node exists leaves
\* the node with the longer of the stored and the new description, the
\* stored one on a tie, and with the stored chunk ids plus the new one, none
\* twice; and the same result inserted again changes nothing.  The code
\* breaks it: a node stored without a description never gets one.
C25_ReinsertKeepsLongerDescription ==
    [][(Adds /\ Len(kg_last'.er.entities) = 1) =>
          LET er == kg_last'.er
              entity == er.entities[1]
          IN  /\ \A i \in Matching(kg_nodes, NodeTypeOf(entity), entity.id) :
                    /\ kg_nodes'[i].description =
                          IF DescLen(entity.description) > DescLen(kg_nodes[i].description)
                          THEN entity.description ELSE kg_nodes[i].description
                    /\ ChunkSet(kg_nodes'[i]) = ChunkSet(kg_nodes[i]) \cup {er.chunk_id}
                    /\ NoDuplicates(kg_nodes'[i].source_chunks)
              /\ AddResult(Graph', er) = Graph']_vars

\* what the code does keep of C25: the stored description stays unless the
\* new one is a longer string than a stored string, the chunk ids are the
\* stored ones plus the new one, none twice, and a result inserted again
\* changes nothing
ReinsertNeverShortens ==
    [][Adds =>
          /\ \A i \in DOMAIN kg_nodes :
                /\ kg_nodes'[i].description # kg_nodes[i].description
                      => /\ kg_nodes[i].description # None
                         /\ Len(kg_nodes'[i].description) > Len(kg_nodes[i].description)
                /\ ChunkSet(kg_nodes'[i]) \subseteq ChunkSet(kg_nodes[i]) \cup {kg_last'.er.chunk_id}
                /\ ChunkSet(kg_nodes[i]) \subseteq ChunkSet(kg_nodes'[i])
          /\ \A i \in DOMAIN kg_nodes' : NoDuplicates(kg_nodes'[i].source_chunks)
          /\ AddResult(Graph', kg_last'.er) = Graph']_vars

\* the ids and the type a relationship joins
TripleOf(e) == <<kg_nodes[e.from].id, kg_nodes[e.to].id, e.type>>

\* C26 as stated: at most one relationship is stored for a triple (from,
\* to, type), and a call that inserts the triple once leaves it with the
\* larger of the stored and the new confidence.  The code breaks it: two
\* nodes of one id and different labels each get the relationship, and a
\* relationship stored without a confidence never gets one.
C26_OneEdgeWithMaxConfidence ==
    [][Adds =>
          /\ \A e, f \in kg_edges' :
                (/\ kg_nodes'[e.from].id = kg_nodes'[f.from].id
                 /\ kg_nodes'[e.to].id = kg_nodes'[f.to].id
                 /\ e.type = f.type) => e = f
          /\ Len(kg_last'.er.relationships) = 1 =>
                LET rel == kg_last'.er.relationships[1]
                IN  \A e \in kg_edges :
                        TripleOf(e) = <<rel.from_id, rel.to_id, RelTypeOf(rel)>> =>
                            \E f \in kg_edges' :
                                /\ f.from = e.from /\ f.to = e.to /\ f.type = e.type
                                /\ f.confidence =
                                      IF rel.confidence > e.confidence
                                      THEN rel.confidence ELSE e.confidence]_vars

\* what the code does keep of C26: between two nodes there is at most one
\* relationship of a type
OneEdgePerNodePair ==
    \A e, f \in kg_edges :
        (e.from = f.from /\ e.to = f.to /\ e.type = f.type) => e = f


\* both concurrent calls have returned
BothDone == \A w \in Writers : writers[w].pc = "done"

\* the nodes of a store without their places, the chunk ids as sets, each
\* with the number of nodes that look so; the relationships by the ids and
\* labels of their ends
NodeView(nodes, i) ==
    [label |-> nodes[i].label, id |-> nodes[i].id,
     description |-> nodes[i].description,
     chunks |-> {nodes[i].source_chunks[j] : j \in DOMAIN nodes[i].source_chunks}]

View(kg) ==
    [nodes |-> {<<NodeView(kg.nodes, i),
                  Cardinality({j \in DOMAIN kg.nodes :
                                  NodeView(kg.nodes, j) = NodeView(kg.nodes, i)})>> :
                   i \in DOMAIN kg.nodes},
     edges |-> {[from |-> NodeView(kg.nodes, e.from), to |-> NodeView(kg.nodes, e.to),
                 type |-> e.type, confidence |-> e.confidence] : e \in kg.edges}]

EmptyGraph == [nodes |-> <<>>, edges |-> {}]

\* C24 as stated: when two concurrent calls have returned, the store is
\* what one of the two orders of the calls, one after the other, leaves:
\* one node for an entity both mention, with the longer description and the
\* chunk ids of both, one relationship with the larger confidence.  The
\* code breaks it: both calls can create the node.
C24_AsIfOneAfterTheOther ==
    BothDone =>
        View(Graph) \in
            {View(AddResult(AddResult(EmptyGraph, writers["p1"].er), writers["p2"].er)),
             View(AddResult(AddResult(EmptyGraph, writers["p2"].er), writers["p1"].er))}

\* the nodes of a label with a uniqueness constraint are merged as if the
\* calls were made one after the other
ConstrainedCallsMerge ==
    (/\ BothDone
     /\ has_constraints
     /\ \A w \in Writers : \A i \in DOMAIN writers[w].er.entities :
            writers[w].er.entities[i].type # NoType)
        => View(Graph) \in
              {View(AddResult(AddResult(EmptyGraph, writers["p1"].er), writers["p2"].er)),
               View(AddResult(AddResult(EmptyGraph, writers["p2"].er), writers["p1"].er))}


(***************************************************************************)
(* Keys of the chunks the sub-searches return                              *)
(***************************************************************************)
\* C27 as stated: a chunk both the vector search and the lexical search
\* returned has the same fusion key in both lists, and a context chunk made
\* of it names both Vector and BM25 in appeared_in.  The code breaks it: the
\* vector hits are given the ids vector_0, vector_1, ... by their rank.
C27_SharedChunkHasOneKey ==
    (sub_search.vector.state = "returned" /\ sub_search.bm25.state = "returned") =>
        \A i \in DOMAIN sub_search.vector.hits, j \in DOMAIN sub_search.bm25.hits :
            LET v == sub_search.vector.hits[i][1]
                b == sub_search.bm25.hits[j][1]
            IN  v.content = b.content =>
                    /\ FuseKey(v) = FuseKey(b)
                    /\ retrieval.outcome = "returned" =>
                          \A k \in DOMAIN retrieval.value :
                              retrieval.value[k].content = v.content =>
                                  /\ InSeq("Vector", retrieval.value[k].appeared_in)
                                  /\ InSeq("BM25", retrieval.value[k].appeared_in)


\* C28 as stated: the key under which the research loop remembers a chunk
\* is the key the fusion gives it, whether the chunk has a non-empty id, an
\* empty one or none.  The code breaks it: the loop takes an empty id as
\* the key, the fusion the hash of the content.
C28_SeenKeyIsFusionKey ==
    seen_ids = {FuseKey(accumulated_chunks[i]) : i \in DOMAIN accumulated_chunks}

\* what the code does keep of C28: the two keys of a chunk with a non-empty
\* id, and of one without the field, are the same
KeysAgreeButForEmptyId ==
    \A i \in DOMAIN step_chunks :
        ~("id" \in DOMAIN step_chunks[i] /\ Falsy(step_chunks[i]["id"]))
            => ResearchKey(step_chunks[i]) = FuseKey(step_chunks[i])


(***************************************************************************)
(* appeared_in of a fused result                                           *)
(***************************************************************************)
\* the place of a method's list among the lists given to fuse
MethodPlace(name) ==
    LET names == DefaultNames(result_sets, method_names)
    IN  CHOOSE i \in DOMAIN names : names[i] = name

\* C29 as stated: in appeared_in of every result of fuse each method is
\* named at most once, and the methods stand in the order of their lists.
\* The code breaks it: a list that holds two entries of one key names its
\* method twice.
C29_AppearedInNamesMethodOnce ==
    fpc = "returned" =>
        \A r \in DOMAIN fused :
            \A j, k \in DOMAIN fused[r].appeared_in :
                j < k => MethodPlace(fused[r].appeared_in[j]) < MethodPlace(fused[r].appeared_in[k])

\* what the code does keep of C29: the methods stand in the order of their
\* lists, each once for every entry of the key in its list
AppearedInFollowsLists ==
    fpc = "returned" =>
        \A r \in DOMAIN fused :
            /\ \A j, k \in DOMAIN fused[r].appeared_in :
                  j < k => MethodPlace(fused[r].appeared_in[j]) <= MethodPlace(fused[r].appeared_in[k])
            /\ \A m \in DOMAIN result_sets :
                  Cardinality({j \in DOMAIN fused[r].appeared_in :
                                  MethodPlace(fused[r].appeared_in[j]) = m})
                  = Cardinality({p \in DOMAIN result_sets[m] :
                                    FuseKey(result_sets[m][p][1]) = fused[r].key})


(***************************************************************************)
(* Capacity of the cache                                                   *)
(***************************************************************************)
\* C30 as stated: whatever the configured capacity, the make-room pass of
\* set keeps the dict from ever holding more than MAX_CACHE_SIZE entries.
\* The code breaks it: below a capacity of 10 the pass removes
\* int(MAX_CACHE_SIZE * 0.1) = 0 entries.
C30_NeverOverCapacity == Len(cache) <= MAX_CACHE_SIZE

\* what the code does keep of C30: from a capacity of 10 on the dict stays
\* within the capacity, and a set at any capacity leaves its key in the dict
WithinCapacityFromTen ==
    /\ MAX_CACHE_SIZE >= 10 => Len(cache) <= MAX_CACHE_SIZE
    /\ [][\A v \in Values, ttl \in {NoTtl} \cup {SomeTtl(n) : n \in 0..MaxTtl} :
             CacheSet(TrackedKey, v, ttl) => CacheIndex(cache', TrackedKey) # 0]_vars

(***************************************************************************)
(* QueryTransformService claims.                                           *)
(***************************************************************************)
VECTOR_HEAVY == [vector |-> 50, bm25 |-> 30, graph |-> 20]
MEDIUM_TRUST == [vector |-> 35, bm25 |-> 40, graph |-> 25]
VECTOR_DISTRUSTING == [vector |-> 20, bm25 |-> 50, graph |-> 30]

\* C33: adjust_weights maps the critique confidence c to exactly one of three
\* weight triples: c >= 70 gives the vector-heavy triple (0.50, 0.30, 0.20),
\* 40 <= c <= 69 the balanced triple (0.35, 0.40, 0.25), c < 40 the
\* vector-distrusting triple (0.20, 0.50, 0.30); a missing confidence counts
\* as 50; each triple sums to 1, and the result does not depend on the
\* weights passed in.
C33_ConfidenceBandsGiveTheWeights ==
    tpc = "returned" =>
        LET stated == "confidence" \in DOMAIN given_critique
            c == IF stated THEN given_critique.confidence ELSE 50
        IN  /\ (c >= 70) => adjusted = VECTOR_HEAVY
            /\ (40 <= c /\ c <= 69) => adjusted = MEDIUM_TRUST
            /\ (c < 40) => adjusted = VECTOR_DISTRUSTING
            /\ adjusted \in {VECTOR_HEAVY, MEDIUM_TRUST, VECTOR_DISTRUSTING}
            /\ adjusted.vector + adjusted.bm25 + adjusted.graph = 100
            /\ \A w \in CurrentWeights : AdjustWeights(w, given_critique) = adjusted

\* a critique of confidence 40, at the lower edge of the middle band, met
\* weights of the code_error profile
C33_Witness ==
    /\ tpc = "returned"
    /\ "confidence" \in DOMAIN given_critique
    /\ given_critique.confidence = 40
    /\ given_weights = WEIGHT_PROFILES["code_error"]
    /\ adjusted = MEDIUM_TRUST

\* the transformation step of _retrieve_rag_context is over
Transformed == cpc \in {"search", "compress", "llm", "finished"} /\ transformed # NoTransform

\* the hypothetical document and its critique were asked for
Critiqued == Transformed /\ "critique" \in DOMAIN transformed

\* C31 as stated, for the step that ran last: if Analyze, GenerateHypothetical
\* or Critique fails, retrieval is not aborted, and the fusion weights and the
\* search query keep the values established by the steps that succeeded
\* before the failure (the balanced weights and the raw query if none did);
\* in particular a failed Critique leaves the weights chosen by Analyze in
\* force.  The code breaks the last part: critique_hyde answers its failure
\* with a critique of confidence 50, and adjust_weights turns that into the
\* middle triple, whatever Analyze chose.
C31_FailedStepKeepsEarlierValues ==
    Transformed =>
        /\ cpc = "search" => retrieval = NoRetrieval
        /\ (transformed.failed = {"analyze"} /\ ~Critiqued) =>
              /\ search_weights = WeightList(WEIGHT_PROFILES["balanced"])
              /\ search_query = chat_query
        /\ (Critiqued /\ "critique" \in transformed.failed) =>
              /\ search_weights = WeightList(transformed.analysis)
              /\ search_query = transformed.hyde_doc

\* what the code does keep of C31: the step always hands over to the search;
\* a failed analysis counts as the balanced profile, a failed hypothetical
\* document as the query itself, a failed critique as one of confidence 50,
\* so that the weights are the middle triple and the text the hypothetical
\* document; an exception leaves the weights and the query as they began
FailedStepsHaveFallbacks ==
    Transformed =>
        /\ cpc = "search" => retrieval = NoRetrieval
        /\ "service" \in transformed.failed =>
              search_weights = DEFAULT_SEARCH_WEIGHTS /\ search_query = chat_query
        /\ "analyze" \in transformed.failed =>
              transformed.analysis = WEIGHT_PROFILES["balanced"]
        /\ "hyde" \in transformed.failed => transformed.hyde_doc = chat_query
        /\ "critique" \in transformed.failed =>
              /\ search_weights = WeightList(MEDIUM_TRUST)
              /\ search_query = transformed.hyde_doc

\* C32 as stated: whenever the route permits HyDE and the critique's
\* confidence is low (below 40), the search query is the original query with
\* the critique's alternative causes appended; whenever the confidence is 40
\* or more, the hypothetical document is the search query.  The code breaks
\* it: the text is chosen by the critique's recommendation field, which the
\* language model states beside the confidence and need not agree with it.
C32_LowConfidenceHedgesTheQuery ==
    (Critiqued /\ "confidence" \in DOMAIN transformed.critique) =>
        LET c == transformed.critique.confidence
            alts == DictGet(transformed.critique, "alternative_causes", <<>>)
        IN  /\ c < 40 => search_query = chat_query \o "\n" \o "Alternative causes: "
                                           \o JoinComma(alts)
            /\ c >= 40 => search_query = transformed.hyde_doc

\* what the code does keep of C32: the weights follow the confidence, the
\* text follows the recommendation
TextFollowsRecommendation ==
    Critiqued =>
        /\ search_weights = WeightList(AdjustWeights(transformed.analysis, transformed.critique))
        /\ search_query = HedgedQuery(chat_query, transformed.hyde_doc, transformed.critique)
        /\ DictGet(transformed.critique, "recommendation", None) # "trust_low" =>
              search_query = transformed.hyde_doc

(***************************************************************************)
(* Path scores                                                             *)
(***************************************************************************)
\* the mean of a sequence of hundredths
MeanOfHundredths(s) == RatDivInt(Hundredths(SumInts(s)), Len(s))

\* the score C34 states for a path that passes the hard floor
StatedScore(path) ==
    LET hops == Len(path)
        length_score == IF hops = 1 THEN Rat(10, 10)
                        ELSE IF hops = 2 THEN Rat(8, 10)
                        ELSE IF hops = 3 THEN Rat(6, 10)
                        ELSE Rat(4, 10)
        typeWeights == [i \in DOMAIN path |->
                          IF "type" \in DOMAIN path[i] /\ path[i].type \in DOMAIN EDGE_WEIGHTS
                          THEN EDGE_WEIGHTS[path[i].type] ELSE 50]
        confs == [i \in DOMAIN path |->
                    IF "confidence" \in DOMAIN path[i] THEN path[i].confidence
                    ELSE DEFAULT_CONFIDENCE]
        lowest == MinOf(confs)
        factor == IF lowest < SOFT_CONFIDENCE
                  THEN RatAdd(Rat(1, 2),
                              RatMul(Rat(1, 2), Rat(lowest - MIN_CONFIDENCE,
                                                    SOFT_CONFIDENCE - MIN_CONFIDENCE)))
                  ELSE Rat(1, 1)
        confidence == RatMul(MeanOfHundredths(confs), factor)
    IN  RatAdd(RatAdd(RatMul(Rat(3, 10), length_score),
                      RatMul(Rat(4, 10), MeanOfHundredths(typeWeights))),
               RatMul(Rat(3, 10), confidence))

PassesHardFloor(path) ==
    \A i \in DOMAIN path :
        "confidence" \in DOMAIN path[i] => path[i].confidence >= MIN_CONFIDENCE

\* C34: for every path that passes the hard floor, score = 0.3 * length_score
\* + 0.4 * edge_score + 0.3 * confidence, where length_score is 1.0 / 0.8 /
\* 0.6 for 1 / 2 / 3 hops and 0.4 otherwise, edge_score is the mean of the
\* per-edge-type weights (0.5 for an unknown type), and confidence is the mean
\* edge confidence, multiplied by 0.5 + 0.5 * (min - hard) / (soft - hard)
\* when the minimum edge confidence is below the soft floor and left unscaled
\* otherwise.
C34_ScoreIsTheWeightedSum ==
    gpc \in {"found", "scored"} =>
        /\ \A i \in DOMAIN found_paths :
              PassesHardFloor(found_paths[i]) =>
                 LET scored == ScorePath(found_paths[i])
                 IN  /\ ~scored.is_none
                     /\ scored.score = StatedScore(found_paths[i])
        /\ \A i \in DOMAIN scored_paths :
              /\ PassesHardFloor(scored_paths[i].path)
              /\ scored_paths[i].score = StatedScore(scored_paths[i].path)
        \* a path of four hops, as a graph of five nodes gives it
        /\ \A i \in DOMAIN found_paths :
              LET longer == found_paths[i] \o <<found_paths[i][1]>>
              IN  (Len(longer) = 4 /\ PassesHardFloor(longer)) =>
                     ScorePath(longer).score = StatedScore(longer)

\* a scored path of two hops whose weakest edge lies between the floors, and
\* one with an edge of a type EDGE_WEIGHTS does not list
C34_Witness ==
    /\ gpc = "scored"
    /\ \E i \in DOMAIN scored_paths :
          /\ Len(scored_paths[i].path) = 2
          /\ MinOf(scored_paths[i].confidence_scores) < SOFT_CONFIDENCE
          /\ MinOf(scored_paths[i].confidence_scores) > MIN_CONFIDENCE
    /\ \E i \in DOMAIN scored_paths :
          \E j \in DOMAIN scored_paths[i].path :
              scored_paths[i].path[j].type \notin DOMAIN EDGE_WEIGHTS
    /\ \E i \in DOMAIN scored_paths : Len(scored_paths[i].path) = 3

(***************************************************************************)
(* Progress percentage and frame of the tracker                            *)
(***************************************************************************)
Records == {f \in FileIds : progress_data[f].present}

\* C35 as stated: in every reachable state of a job's progress record,
\* progress equals floor(100 * current_stage_num / total_stages) and lies
\* between 0 and 100, whatever sequence of start_processing, update_stage,
\* update_substage, mark_completed and mark_failed calls (with any stage_num)
\* produced it.  The code breaks it: update_stage stores the stage_num it is
\* given without looking at total_stages.
C35_ProgressIsThePercentage ==
    \A f \in Records :
        LET r == progress_data[f]
        IN  /\ r.progress = (100 * r.current_stage_num) \div r.total_stages
            /\ 0 <= r.progress /\ r.progress <= 100

\* what the code does keep of C35: progress is the quotient cut towards zero,
\* and it lies between 0 and 100 whenever the stage number lies between 0 and
\* total_stages
ProgressFollowsStageNum ==
    \A f \in Records :
        LET r == progress_data[f]
        IN  /\ r.progress = PercentOf(r.current_stage_num, r.total_stages)
            /\ (0 <= r.current_stage_num /\ r.current_stage_num <= r.total_stages) =>
                  /\ r.progress = (100 * r.current_stage_num) \div r.total_stages
                  /\ 0 <= r.progress /\ r.progress <= 100

\* the step is a call of the tracker operation op, or of one of ops
TrackerCall(ops) == pcalls' = pcalls + 1 /\ last_call'.op \in ops

\* C36: update_stage, update_substage, mark_completed and mark_failed on a
\* job id that was never started change nothing (no record is created and no
\* broadcast is scheduled), every operation on one job leaves the records and
\* subscriber sets of all other jobs unchanged, and no operation ever removes
\* a progress record.
C36_OperationsKeepTheirFrame ==
    [][/\ (/\ TrackerCall({"update_stage", "update_substage", "mark_completed",
                           "mark_failed"})
           /\ ~progress_data[last_call'.file_id].present) =>
              /\ progress_data' = progress_data
              /\ scheduled' = scheduled
              /\ connections' = connections
       /\ pcalls' = pcalls + 1 =>
              /\ connections' = connections
              /\ \A f \in FileIds \ {last_call'.file_id} :
                    /\ progress_data'[f] = progress_data[f]
                    /\ scheduled'[f] = scheduled[f]
       /\ pcalls' = pcalls =>
              /\ progress_data' = progress_data
              /\ scheduled' = scheduled
              /\ \A f, g \in FileIds :
                    (connections'[f] # connections[f] /\ connections'[g] # connections[g])
                        => f = g
       /\ \A f \in FileIds : progress_data[f].present => progress_data'[f].present
      ]_vars

\* mark_failed was called for a job never started, while the other job has
\* a record, a broadcast scheduled and a subscriber, and a websocket has
\* registered for the job never started
C36_Witness ==
    /\ last_call = [op |-> "mark_failed", file_id |-> "f2"]
    /\ ~progress_data["f2"].present
    /\ scheduled["f2"] = 0
    /\ progress_data["f1"].present
    /\ scheduled["f1"] > 0
    /\ connections["f1"].members = {"w1"}
    /\ connections["f2"].members = {"w2", "w3"}

(***************************************************************************)
(* Cached contexts                                                         *)
(***************************************************************************)
\* the last call was served from the cache
ServedFromCache == rag_calls > 0 /\ rag_last.hit

\* C37 as stated: a context that _retrieve_rag_context(query, file_ids)
\* serves from the cache was computed for the same file_ids filter: two calls
\* with the same query text but different file_ids never receive each
\* other's cached chunks.  The code breaks it: the cache key is made of the
\* query alone.
C37_CachedContextIsOfTheSameFilter ==
    ServedFromCache =>
        /\ rag_origin[rag_last.key] = rag_last.file_ids
        /\ rag_last.returned = SearchFiltered(rag_last.file_ids)

\* what the code does keep of C37: a context served from the cache was
\* stored by a call with the same query text and is what that call retrieved
\* under its own filter
CachedContextIsOfTheSameQuery ==
    ServedFromCache =>
        /\ rag_last.key = GenerateKey("rag_context", rag_last.query)
        /\ rag_last.key \in DOMAIN rag_origin
        /\ rag_last.returned = SearchFiltered(rag_origin[rag_last.key])
        /\ rag_last.returned # <<>>


\* ---------------------------------------------------------------------
\* C38: under any interleaving of overlapping broadcasts of a job, no
\* subscriber is sent a snapshot older than one it was already sent: the
\* updated_at of the record passed to a websocket's send_json never goes
\* down from one send to the next.
C38_SnapshotsArriveInOrder ==
    [][\A w \in WebSockets : last_sent'[w] >= last_sent[w]]_vars

\* what the code does keep of C38: a websocket is never sent a record
\* newer than the one the tracker holds
SentSnapshotsExist ==
    \A w \in WebSockets : last_sent[w] <= progress_data[BroadcastFile].updated_at


\* ---------------------------------------------------------------------
\* the relationships of the graph that leave a node for a node with an id
EdgesLeaving(node) ==
    {EdgeOf(NodeIndex(node), j, k) :
        <<j, k>> \in {jk \in (1..NumNodes) \X (1..graph.fan) :
                         <<NodeIndex(node), jk[1]>> \in graph.adj}}

\* the cycle-free outgoing paths of at most hops edges from a node to the
\* end node that stay off the nodes already passed
RECURSIVE PathsToEnd(_, _, _)
PathsToEnd(node, passed, hops) ==
    IF hops <= 0 THEN {}
    ELSE UNION {IF edge.to_id = end_id THEN {<<edge>>}
                ELSE IF edge.to_id \in passed THEN {}
                ELSE {<<edge>> \o rest :
                         rest \in PathsToEnd(edge.to_id, passed \cup {edge.to_id}, hops - 1)}
                : edge \in EdgesLeaving(node)}

CycleFreePaths == PathsToEnd(start_id, {start_id}, max_hops)

\* C39: _bfs_paths reports paths in non-decreasing hop count.  With fewer
\* than 20 cycle-free outgoing paths of at most max_hops hops from start to
\* end it returns exactly all of them, each once; with 20 or more it returns
\* 20 of them, among them every path shorter than the longest returned.
C39_BfsReturnsShortestFirst ==
    /\ \A i, j \in DOMAIN found_paths : i < j => Len(found_paths[i]) <= Len(found_paths[j])
    /\ gpc \in {"found", "scored"} =>
         LET returned == Range(found_paths)
             n == Len(found_paths)
         IN  /\ Cardinality(returned) = n
             /\ returned \subseteq CycleFreePaths
             /\ \A path \in returned : IsSimpleWalk(path, start_id, end_id, max_hops)
             /\ IF Cardinality(CycleFreePaths) < FOUND_CAP
                THEN returned = CycleFreePaths
                ELSE /\ n = FOUND_CAP
                     /\ \A path \in CycleFreePaths :
                           Len(path) < Len(found_paths[n]) => path \in returned

\* the search stopped at the cap: one-hop and two-hop paths are returned,
\* and a two-hop path and the three-hop paths are left out
C39_Witness ==
    /\ gpc = "found"
    /\ Len(found_paths) = FOUND_CAP
    /\ Len(found_paths[1]) = 1
    /\ Len(found_paths[FOUND_CAP]) = 2
    /\ \E path \in CycleFreePaths : Len(path) = 2 /\ path \notin Range(found_paths)
    /\ \E path \in CycleFreePaths : Len(path) = 3

\* every path there is was returned, of one, two and three hops, below the cap
EveryPathReturnedBelowCap ==
    /\ gpc = "found"
    /\ Range(found_paths) = CycleFreePaths
    /\ Len(found_paths) < FOUND_CAP
    /\ {Len(found_paths[i]) : i \in DOMAIN found_paths} = {1, 2, 3}
    /\ graph.dangling
    /\ <<2, 1>> \in graph.adj


\* ---------------------------------------------------------------------
\* the nodes that carry an entity id, whatever their label
NodesOfEntity(id) == {i \in DOMAIN kg_nodes : kg_nodes[i].id = id}

\* C40: the store holds at most one node per entity id, whatever types the
\* entity was inserted with, so that every relationship between two ids
\* hangs on exactly one source node and one target node.
C40_OneNodePerEntityId ==
    /\ \A i, j \in DOMAIN kg_nodes : kg_nodes[i].id = kg_nodes[j].id => i = j
    /\ \A e \in kg_edges :
          /\ NodesOfEntity(kg_nodes[e.from].id) = {e.from}
          /\ NodesOfEntity(kg_nodes[e.to].id) = {e.to}

\* what the code does keep of C40: calls that run one after the other leave
\* at most one node per label and id
OneNodePerLabelAndId ==
    \A i, j \in DOMAIN kg_nodes :
        (kg_nodes[i].id = kg_nodes[j].id /\ kg_nodes[i].label = kg_nodes[j].label) => i = j

====
